---- MODULE Spec2Model ----
(***************************************************************************)
(* Model of the CV upload pipeline of src/controllers/promptsController.ts *)
(* (uploadCv, generatePrompts and the text functions they call) together   *)
(* with the routes and the authentication middleware in front of them.     *)
(*                                                                         *)
(* A JavaScript string is a sequence of one-character strings.  The        *)
(* datastore table cv_uploads is the sequence db (the id of a row is its   *)
(* index), the uploads directory is the function files from stored paths   *)
(* to the bytes of the file, and every request to POST /cv/:uploadId/      *)
(* prompts is a call whose position (pc) advances from one await of the    *)
(* handler to the next, so that calls interleave exactly where the         *)
(* handler yields.  A call that has answered keeps its response.           *)
(***************************************************************************)
EXTENDS Integers, Sequences, FiniteSets, TLC

(***************************************************************************)
(* Bounds of the model.                                                    *)
(***************************************************************************)
\* number of upload requests that reach the disk storage
MaxUploads == 1
\* number of generatePrompts requests
MaxCalls == 2
\* number of principals known to the identity provider
NumUsers == 2
\* raw texts the PDF extraction may yield: length and alphabet
MaxRawLen == 1
NumRawChars == 3
\* number of functions applied to one text
MaxOps == 3
\* length of the short texts, and number of characters they are made of
MaxTextLen == 3
NumTextChars == 4
\* number of lines that the markdown inputs choose from
NumMarkdownLines == 7

(***************************************************************************)
(* Characters and character classes of the JavaScript regular expressions. *)
(***************************************************************************)
Lowers ==
  << "a", "b", "c", "d", "e", "f", "g", "h", "i", "j", "k", "l", "m",
     "n", "o", "p", "q", "r", "s", "t", "u", "v", "w", "x", "y", "z" >>

Uppers ==
  << "A", "B", "C", "D", "E", "F", "G", "H", "I", "J", "K", "L", "M",
     "N", "O", "P", "Q", "R", "S", "T", "U", "V", "W", "X", "Y", "Z" >>

Digits == { "0", "1", "2", "3", "4", "5", "6", "7", "8", "9" }

Range(f) == { f[i] : i \in DOMAIN f }

\* [A-Za-z]
Letters == Range(Lowers) \cup Range(Uppers)

IsLetter(c) == c \in Letters

\* \d
IsDigit(c) == c \in Digits

\* [A-Za-z0-9]
Alnums == Letters \cup Digits

IsAlnum(c) == c \in Alnums

\* \w
WordChars == Alnums \cup { "_" }

IsWordChar(c) == c \in WordChars

\* \s
Spaces == { " ", "\n", "\t", "\r", "\f" }

IsSpace(c) == c \in Spaces

\* the line terminators after which ^ matches under the m flag
IsLineTerminator(c) == c \in { "\n", "\r" }

\* [,.;:!?]
IsPunct(c) == c \in { ",", ".", ";", ":", "!", "?" }

\* String.prototype.toUpperCase, one character
UpperChar(c) ==
  IF c \in Range(Lowers)
    THEN Uppers[CHOOSE i \in DOMAIN Lowers : Lowers[i] = c]
    ELSE c

\* String.prototype.toLowerCase, one character
LowerChar(c) ==
  IF c \in Range(Uppers)
    THEN Lowers[CHOOSE i \in DOMAIN Uppers : Uppers[i] = c]
    ELSE c

toUpperCase(s) == [i \in 1..Len(s) |-> UpperChar(s[i])]

toLowerCase(s) == [i \in 1..Len(s) |-> LowerChar(s[i])]

Min(a, b) == IF a < b THEN a ELSE b

Max(a, b) == IF a > b THEN a ELSE b

\* s.substring(from - 1) in the 1-based indexing of sequences
Drop(s, from) == SubSeq(s, from, Len(s))

SetMin(S) == CHOOSE x \in S : \A y \in S : x <= y

SetMax(S) == CHOOSE x \in S : \A y \in S : y <= x

\* the index after the run of characters of the set C that starts at i
RunEnd(s, i, C) ==
  LET stops == { j \in i..Len(s) : s[j] \notin C }
  IN  IF stops = {} THEN Max(i, Len(s) + 1) ELSE SetMin(stops)

\* String.prototype.trim
trim(s) ==
  LET keep == { j \in 1..Len(s) : ~IsSpace(s[j]) }
  IN  IF keep = {} THEN << >> ELSE SubSeq(s, SetMin(keep), SetMax(keep))

\* s.startsWith(p)
startsWith(s, p) == Len(p) <= Len(s) /\ SubSeq(s, 1, Len(p)) = p

\* p occurs in s at index i
OccursAt(s, p, i) ==
  i >= 1 /\ i + Len(p) - 1 <= Len(s) /\ SubSeq(s, i, i + Len(p) - 1) = p

\* s.includes(p)
includes(s, p) == \E i \in 1..(Len(s) + 1) : OccursAt(s, p, i)

\* s.split("\n")
RECURSIVE split(_)
split(s) ==
  LET breaks == { k \in 1..Len(s) : s[k] = "\n" }
  IN  IF breaks = {} THEN << s >>
      ELSE << SubSeq(s, 1, SetMin(breaks) - 1) >>
             \o split(Drop(s, SetMin(breaks) + 1))

\* lines.join("\n")
RECURSIVE join(_)
join(ls) ==
  IF ls = << >> THEN << >>
  ELSE IF Len(ls) = 1 THEN ls[1]
  ELSE ls[1] \o << "\n" >> \o join(Tail(ls))

(***************************************************************************)
(* Text repair, generatePrompts lines 506-521.  A global replace is the    *)
(* text before the leftmost match, the replacement of the match, and the   *)
(* global replace of what follows the match.                               *)
(***************************************************************************)
\* the index of the leftmost match, given the indices at which the pattern
\* matches, or 0
FirstMatch(starts) == IF starts = {} THEN 0 ELSE SetMin(starts)

\* the indices from i on
From(s, i) == i..Len(s)

\* the pattern with \s in the place of \s+
GapEndOfOneSpace(s, i) ==
  IF IsAlnum(s[i]) /\ i + 2 <= Len(s) /\ IsSpace(s[i + 1])
       /\ IsAlnum(s[i + 2])
    THEN i + 3
    ELSE 0

\* /([A-Za-z0-9])\s+([A-Za-z0-9])/ at i: the index after the match, or 0
GapEnd(s, i) ==
  LET j == RunEnd(s, i + 1, Spaces)
  IN  IF IsAlnum(s[i]) /\ j > i + 1 /\ j <= Len(s) /\ IsAlnum(s[j])
        THEN j + 1
        ELSE 0

\* one s.replace(/([A-Za-z0-9])\s+([A-Za-z0-9])/g, "$1$2")
RECURSIVE GapPass(_, _)
GapPass(s, i) ==
  LET m == FirstMatch({ j \in From(s, i) : GapEnd(s, j) # 0 })
      e == GapEnd(s, m)
  IN  IF m = 0 THEN Drop(s, i)
      ELSE SubSeq(s, i, m - 1) \o << s[m], s[e - 1] >> \o GapPass(s, e)

\* do { prev = s; s = s.replace(...) } while (s !== prev)
RECURSIVE collapseLetterGaps(_)
collapseLetterGaps(s) ==
  LET t == GapPass(s, 1)
  IN  IF t = s THEN s ELSE collapseLetterGaps(t)

\* /\s+([,.;:!?])/ at i: the index after the match, or 0
SpacePunctEnd(s, i) ==
  LET j == RunEnd(s, i, Spaces)
  IN  IF j > i /\ j <= Len(s) /\ IsPunct(s[j]) THEN j + 1 ELSE 0

\* preprocessed.replace(/\s+([,.;:!?])/g, "$1")
RECURSIVE stripSpaceBeforePunct(_, _)
stripSpaceBeforePunct(s, i) ==
  LET m == FirstMatch({ j \in From(s, i) : SpacePunctEnd(s, j) # 0 })
      e == SpacePunctEnd(s, m)
  IN  IF m = 0 THEN Drop(s, i)
      ELSE SubSeq(s, i, m - 1) \o << s[e - 1] >>
             \o stripSpaceBeforePunct(s, e)

\* cleaned, had the replace of collapseLetterGaps run once
repairInOnePass(raw) == stripSpaceBeforePunct(GapPass(raw, 1), 1)

\* cleaned, as computed from rawMarkdown
repair(raw) == stripSpaceBeforePunct(collapseLetterGaps(raw), 1)

(***************************************************************************)
(* enhanceMarkdown, lines 32-92: the chain of replacements of lines 34-52. *)
(* A character outside ASCII is written as its code point ("U+2022").      *)
(***************************************************************************)
\* ^ under the m flag: the start of the text or the place after a terminator
AtLineStart(s, i) == i = 1 \/ IsLineTerminator(s[i - 1])

\* /\n{3,}/ at i: the index after the match, or 0
NewlinesEnd(s, i) ==
  LET j == RunEnd(s, i, { "\n" })
  IN  IF j - i >= 3 THEN j ELSE 0

\* .replace(/\n{3,}/g, "\n\n")
RECURSIVE squeezeNewlines(_, _)
squeezeNewlines(s, i) ==
  LET m == FirstMatch({ j \in From(s, i) : NewlinesEnd(s, j) # 0 })
  IN  IF m = 0 THEN Drop(s, i)
      ELSE SubSeq(s, i, m - 1) \o << "\n", "\n" >>
             \o squeezeNewlines(s, NewlinesEnd(s, m))

\* the bullet glyphs of line 38
BulletGlyphs ==
  { "U+2022", "U+00B7", "U+25AA", "U+25AB", "U+25B8", "U+25B9", "U+2023",
    "U+2043" }

\* /^[\s]*[bullet glyph]\s*/m at i: the index after the match, or 0
BulletEnd(s, i) ==
  LET j == RunEnd(s, i, Spaces)
  IN  IF AtLineStart(s, i) /\ j <= Len(s) /\ s[j] \in BulletGlyphs
        THEN RunEnd(s, j + 1, Spaces)
        ELSE 0

\* .replace(/^[\s]*[bullet glyph]\s*/gm, "- ")
RECURSIVE fixBullets(_, _)
fixBullets(s, i) ==
  LET m == FirstMatch({ j \in From(s, i) : BulletEnd(s, j) # 0 })
  IN  IF m = 0 THEN Drop(s, i)
      ELSE SubSeq(s, i, m - 1) \o << "-", " " >>
             \o fixBullets(s, BulletEnd(s, m))

\* /^[\s]*(\d+)[\.\)]\s*/m at i: the index after the match, or 0
NumberedEnd(s, i) ==
  LET j == RunEnd(s, i, Spaces)
      k == RunEnd(s, j, Digits)
  IN  IF AtLineStart(s, i) /\ k > j /\ k <= Len(s) /\ s[k] \in { ".", ")" }
        THEN RunEnd(s, k + 1, Spaces)
        ELSE 0

\* .replace(/^[\s]*(\d+)[\.\)]\s*/gm, "$1. ")
RECURSIVE fixNumbered(_, _)
fixNumbered(s, i) ==
  LET m == FirstMatch({ j \in From(s, i) : NumberedEnd(s, j) # 0 })
      j == RunEnd(s, m, Spaces)
      k == RunEnd(s, j, Digits)
  IN  IF m = 0 THEN Drop(s, i)
      ELSE SubSeq(s, i, m - 1) \o SubSeq(s, j, k - 1) \o << ".", " " >>
             \o fixNumbered(s, NumberedEnd(s, m))

\* /^#+\s+/m at i: the index after the match, or 0
HeaderEnd(s, i) ==
  LET j == RunEnd(s, i, { "#" })
      k == RunEnd(s, j, Spaces)
  IN  IF AtLineStart(s, i) /\ j > i /\ k > j THEN k ELSE 0

\* .replace(/^#+\s+/gm, (match) => match.replace(/\s+/g, " "))
RECURSIVE fixHeaders(_, _)
fixHeaders(s, i) ==
  LET m == FirstMatch({ j \in From(s, i) : HeaderEnd(s, j) # 0 })
  IN  IF m = 0 THEN Drop(s, i)
      ELSE SubSeq(s, i, RunEnd(s, m, { "#" }) - 1) \o << " " >>
             \o fixHeaders(s, HeaderEnd(s, m))

\* [a-zA-Z0-9._%+-] and [a-zA-Z0-9.-]
EmailLocalChars == Alnums \cup { ".", "_", "%", "+", "-" }

EmailDomainChars == Alnums \cup { ".", "-" }

\* the e-mail pattern of line 44 at i: the index after the match, or 0
EmailEnd(s, i) ==
  LET q  == RunEnd(s, i, EmailLocalChars)
      r  == RunEnd(s, q + 1, EmailDomainChars)
      ks == { k \in (q + 2)..(r - 1) :
                /\ s[k] = "."
                /\ k + 2 <= Len(s)
                /\ IsLetter(s[k + 1])
                /\ IsLetter(s[k + 2]) }
  IN  IF q > i /\ q <= Len(s) /\ s[q] = "@" /\ ks # {}
        THEN RunEnd(s, SetMax(ks) + 1, Letters)
        ELSE 0

\* .replace(/(e-mail)/g, "**$1**")
RECURSIVE boldEmails(_, _)
boldEmails(s, i) ==
  LET m == FirstMatch({ j \in From(s, i) : EmailEnd(s, j) # 0 })
      e == EmailEnd(s, m)
  IN  IF m = 0 THEN Drop(s, i)
      ELSE SubSeq(s, i, m - 1) \o << "*", "*" >> \o SubSeq(s, m, e - 1)
             \o << "*", "*" >> \o boldEmails(s, e)

\* [\s\-]
PhoneSep == Spaces \cup { "-" }

\* the greatest repetition counts of the four digit groups of line 45
PhoneGroupMax == << 3, 4, 4, 9 >>

\* the index after a match of \d{1,max}([\s\-]?\d{1,max})... that starts
\* at p with digit group g, tried in the order of a backtracking matcher
\* (n digits first, fewer digits next; the separator first, none next), or 0
RECURSIVE PhoneGroup(_, _, _, _)
PhoneGroup(s, p, g, n) ==
  IF n = 0 THEN 0
  ELSE LET digitsOk == p + n - 1 <= Len(s)
                         /\ \A x \in p..(p + n - 1) : IsDigit(s[x])
           q == p + n
           withSep ==
             IF q <= Len(s) /\ s[q] \in PhoneSep
               THEN PhoneGroup(s, q + 1, g + 1, PhoneGroupMax[g + 1])
               ELSE 0
           noSep == PhoneGroup(s, q, g + 1, PhoneGroupMax[g + 1])
           here ==
             IF ~digitsOk THEN 0
             ELSE IF g = 4 THEN q
             ELSE IF withSep # 0 THEN withSep
             ELSE noSep
       IN  IF here # 0 THEN here ELSE PhoneGroup(s, p, g, n - 1)

\* the phone pattern of line 45 at i: the index after the match, or 0
PhoneEnd(s, i) ==
  IF s[i] = "+" THEN PhoneGroup(s, i + 1, 1, PhoneGroupMax[1]) ELSE 0

\* .replace(/(phone)/g, "**$1**")
RECURSIVE boldPhones(_, _)
boldPhones(s, i) ==
  LET m == FirstMatch({ j \in From(s, i) : PhoneEnd(s, j) # 0 })
      e == PhoneEnd(s, m)
  IN  IF m = 0 THEN Drop(s, i)
      ELSE SubSeq(s, i, m - 1) \o << "*", "*" >> \o SubSeq(s, m, e - 1)
             \o << "*", "*" >> \o boldPhones(s, e)

\* [\s\-U+2013]
DateSep == Spaces \cup { "-", "U+2013" }

\* \d{4} at i
FourDigits(s, i) ==
  i >= 1 /\ i + 3 <= Len(s) /\ \A x \in i..(i + 3) : IsDigit(s[x])

\* the words of (present|current)
WordPresent == << "p", "r", "e", "s", "e", "n", "t" >>

WordCurrent == << "c", "u", "r", "r", "e", "n", "t" >>

\* /\d{4}[\s\-U+2013]+\d{4}/ at i: the index after the match, or 0
YearRangeEnd(s, i) ==
  LET j == RunEnd(s, i + 4, DateSep)
  IN  IF FourDigits(s, i) /\ j > i + 4 /\ FourDigits(s, j)
        THEN j + 4
        ELSE 0

\* /\d{4}[\s\-U+2013]+(present|current)/i at i: the index after it, or 0
YearPresentEnd(s, i) ==
  LET j == RunEnd(s, i + 4, DateSep)
      l == toLowerCase(s)
  IN  IF /\ FourDigits(s, i)
         /\ j > i + 4
         /\ (OccursAt(l, WordPresent, j) \/ OccursAt(l, WordCurrent, j))
        THEN j + 7
        ELSE 0

\* .replace(/(\d{4}[\s\-U+2013]+\d{4})/g, "*$1*")
RECURSIVE emphYearRanges(_, _)
emphYearRanges(s, i) ==
  LET m == FirstMatch({ j \in From(s, i) : YearRangeEnd(s, j) # 0 })
      e == YearRangeEnd(s, m)
  IN  IF m = 0 THEN Drop(s, i)
      ELSE SubSeq(s, i, m - 1) \o << "*" >> \o SubSeq(s, m, e - 1)
             \o << "*" >> \o emphYearRanges(s, e)

\* .replace(/(\d{4}[\s\-U+2013]+(present|current))/gi, "*$1*")
RECURSIVE emphYearPresent(_, _)
emphYearPresent(s, i) ==
  LET m == FirstMatch({ j \in From(s, i) : YearPresentEnd(s, j) # 0 })
      e == YearPresentEnd(s, m)
  IN  IF m = 0 THEN Drop(s, i)
      ELSE SubSeq(s, i, m - 1) \o << "*" >> \o SubSeq(s, m, e - 1)
             \o << "*" >> \o emphYearPresent(s, e)

\* /\s+/ at i: the index after the match, or 0
SpacesEnd(s, i) ==
  LET j == RunEnd(s, i, Spaces)
  IN  IF j > i THEN j ELSE 0

\* .replace(/\s+/g, " ")
RECURSIVE collapseSpaces(_, _)
collapseSpaces(s, i) ==
  LET m == FirstMatch({ j \in From(s, i) : SpacesEnd(s, j) # 0 })
  IN  IF m = 0 THEN Drop(s, i)
      ELSE SubSeq(s, i, m - 1) \o << " " >>
             \o collapseSpaces(s, SpacesEnd(s, m))

\* /\n\s+/ at i: the index after the match, or 0
NewlineSpacesEnd(s, i) ==
  LET j == RunEnd(s, i + 1, Spaces)
  IN  IF s[i] = "\n" /\ j > i + 1 THEN j ELSE 0

\* .replace(/\n\s+/g, "\n")
RECURSIVE stripAfterNewline(_, _)
stripAfterNewline(s, i) ==
  LET m == FirstMatch({ j \in From(s, i) : NewlineSpacesEnd(s, j) # 0 })
  IN  IF m = 0 THEN Drop(s, i)
      ELSE SubSeq(s, i, m - 1) \o << "\n" >>
             \o stripAfterNewline(s, NewlineSpacesEnd(s, m))

\* the chain without the replace of line 50
cleanMarkdownKeepingLines(markdown) ==
  LET s1  == squeezeNewlines(markdown, 1)
      s2  == fixBullets(s1, 1)
      s3  == fixNumbered(s2, 1)
      s4  == fixHeaders(s3, 1)
      s5  == boldEmails(s4, 1)
      s6  == boldPhones(s5, 1)
      s7  == emphYearRanges(s6, 1)
      s8  == emphYearPresent(s7, 1)
      s10 == stripAfterNewline(s8, 1)
  IN  trim(s10)

\* the value of `enhanced` at line 52
cleanMarkdown(markdown) ==
  LET s1  == squeezeNewlines(markdown, 1)
      s2  == fixBullets(s1, 1)
      s3  == fixNumbered(s2, 1)
      s4  == fixHeaders(s3, 1)
      s5  == boldEmails(s4, 1)
      s6  == boldPhones(s5, 1)
      s7  == emphYearRanges(s6, 1)
      s8  == emphYearPresent(s7, 1)
      s9  == collapseSpaces(s8, 1)
      s10 == stripAfterNewline(s9, 1)
  IN  trim(s10)

(***************************************************************************)
(* The line classifiers of enhanceMarkdown, lines 97-201.                  *)
(***************************************************************************)
\* \b at the place between s[i - 1] and s[i]
WordBoundary(s, i) ==
  LET before == i - 1 >= 1 /\ i - 1 <= Len(s) /\ IsWordChar(s[i - 1])
      after  == i >= 1 /\ i <= Len(s) /\ IsWordChar(s[i])
  IN  before # after

\* /\b(w1|w2|...)\b/i.test(s) for the alternatives `words`
MatchesWord(s, words) ==
  LET l == toLowerCase(s)
  IN  \E w \in words, i \in 1..Len(s) :
        /\ WordBoundary(s, i)
        /\ OccursAt(l, w, i)
        /\ WordBoundary(s, i + Len(w))

\* [-U+2013]
Dashes == { "-", "U+2013" }

\* \s*[-U+2013]\s* from i: the index after it, or 0
DashEnd(s, i) ==
  LET j == RunEnd(s, i, Spaces)
  IN  IF j <= Len(s) /\ s[j] \in Dashes THEN RunEnd(s, j + 1, Spaces) ELSE 0

\* /\b\d{4}\s*[-U+2013]\s*\d{4}\b/
DatePattern1(s) ==
  \E i \in 1..Len(s) :
    LET k == DashEnd(s, i + 4)
    IN  /\ WordBoundary(s, i)
        /\ FourDigits(s, i)
        /\ k # 0
        /\ FourDigits(s, k)
        /\ WordBoundary(s, k + 4)

\* /\b\d{4}\s*[-U+2013]\s*(present|current)\b/i
DatePattern2(s) ==
  \E i \in 1..Len(s) :
    LET k == DashEnd(s, i + 4)
        l == toLowerCase(s)
    IN  /\ WordBoundary(s, i)
        /\ FourDigits(s, i)
        /\ k # 0
        /\ (OccursAt(l, WordPresent, k) \/ OccursAt(l, WordCurrent, k))
        /\ WordBoundary(s, k + 7)

\* (jan|feb|...|dec) of line 195
monthWords ==
  {
    << "j", "a", "n" >>,
    << "f", "e", "b" >>,
    << "m", "a", "r" >>,
    << "a", "p", "r" >>,
    << "m", "a", "y" >>,
    << "j", "u", "n" >>,
    << "j", "u", "l" >>,
    << "a", "u", "g" >>,
    << "s", "e", "p" >>,
    << "o", "c", "t" >>,
    << "n", "o", "v" >>,
    << "d", "e", "c" >> }

\* /\b(jan|feb|...|dec)\w*\s+\d{4}/i
DatePattern3(s) ==
  \E i \in 1..Len(s) :
    LET l == toLowerCase(s)
        m == RunEnd(s, i + 3, WordChars)
        j == RunEnd(s, m, Spaces)
    IN  /\ WordBoundary(s, i)
        /\ \E w \in monthWords : OccursAt(l, w, i)
        /\ j > m
        /\ FourDigits(s, j)

\* \d{1,2}\/\d{4} at i: the index after it, or 0
MonthYearEnd(s, i) ==
  LET n == RunEnd(s, i, Digits) - i
  IN  IF /\ i >= 1
         /\ n \in { 1, 2 }
         /\ i + n <= Len(s)
         /\ s[i + n] = "/"
         /\ FourDigits(s, i + n + 1)
        THEN i + n + 5
        ELSE 0

\* /\b\d{1,2}\/\d{4}\s*[-U+2013]\s*\d{1,2}\/\d{4}\b/
DatePattern4(s) ==
  \E i \in 1..Len(s) :
    LET a == MonthYearEnd(s, i)
        k == IF a = 0 THEN 0 ELSE DashEnd(s, a)
        e == IF k = 0 THEN 0 ELSE MonthYearEnd(s, k)
    IN  /\ WordBoundary(s, i)
        /\ e # 0
        /\ WordBoundary(s, e)

\* 20\d{2} at i
Year20(s, i) == FourDigits(s, i) /\ s[i] = "2" /\ s[i + 1] = "0"

\* /\b(20\d{2})\s*[-U+2013]\s*(20\d{2}|present|current)\b/i
DatePattern5(s) ==
  \E i \in 1..Len(s) :
    LET k == DashEnd(s, i + 4)
        l == toLowerCase(s)
    IN  /\ WordBoundary(s, i)
        /\ Year20(s, i)
        /\ k # 0
        /\ \/ Year20(s, k) /\ WordBoundary(s, k + 4)
           \/ /\ OccursAt(l, WordPresent, k) \/ OccursAt(l, WordCurrent, k)
              /\ WordBoundary(s, k + 7)

\* hasDatePattern, lines 191-201
hasDatePattern(line) ==
  \/ DatePattern1(line)
  \/ DatePattern2(line)
  \/ DatePattern3(line)
  \/ DatePattern4(line)
  \/ DatePattern5(line)

\* sectionKeywords, lines 98-129
sectionKeywords ==
  {
    << "c", "a", "r", "e", "e", "r", " ", "o", "b", "j", "e", "c", "t", "i", "v", "e" >>,
    << "o", "b", "j", "e", "c", "t", "i", "v", "e" >>,
    << "s", "u", "m", "m", "a", "r", "y" >>,
    << "p", "r", "o", "f", "i", "l", "e" >>,
    << "w", "o", "r", "k", " ", "e", "x", "p", "e", "r", "i", "e", "n", "c", "e" >>,
    << "e", "x", "p", "e", "r", "i", "e", "n", "c", "e" >>,
    << "e", "m", "p", "l", "o", "y", "m", "e", "n", "t" >>,
    << "p", "r", "o", "f", "e", "s", "s", "i", "o", "n", "a", "l", " ", "e", "x", "p", "e", "r", "i", "e", "n", "c", "e" >>,
    << "e", "d", "u", "c", "a", "t", "i", "o", "n" >>,
    << "a", "c", "a", "d", "e", "m", "i", "c", " ", "b", "a", "c", "k", "g", "r", "o", "u", "n", "d" >>,
    << "q", "u", "a", "l", "i", "f", "i", "c", "a", "t", "i", "o", "n", "s" >>,
    << "s", "k", "i", "l", "l", "s" >>,
    << "t", "e", "c", "h", "n", "i", "c", "a", "l", " ", "s", "k", "i", "l", "l", "s" >>,
    << "c", "o", "r", "e", " ", "c", "o", "m", "p", "e", "t", "e", "n", "c", "i", "e", "s" >>,
    << "e", "x", "p", "e", "r", "t", "i", "s", "e" >>,
    << "p", "r", "o", "j", "e", "c", "t", "s" >>,
    << "k", "e", "y", " ", "p", "r", "o", "j", "e", "c", "t", "s" >>,
    << "s", "e", "l", "e", "c", "t", "e", "d", " ", "p", "r", "o", "j", "e", "c", "t", "s" >>,
    << "c", "e", "r", "t", "i", "f", "i", "c", "a", "t", "i", "o", "n", "s" >>,
    << "c", "e", "r", "t", "i", "f", "i", "c", "a", "t", "e", "s" >>,
    << "p", "r", "o", "f", "e", "s", "s", "i", "o", "n", "a", "l", " ", "d", "e", "v", "e", "l", "o", "p", "m", "e", "n", "t" >>,
    << "a", "c", "h", "i", "e", "v", "e", "m", "e", "n", "t", "s" >>,
    << "a", "c", "c", "o", "m", "p", "l", "i", "s", "h", "m", "e", "n", "t", "s" >>,
    << "a", "w", "a", "r", "d", "s" >>,
    << "l", "a", "n", "g", "u", "a", "g", "e", "s" >>,
    << "l", "a", "n", "g", "u", "a", "g", "e", " ", "s", "k", "i", "l", "l", "s" >>,
    << "p", "e", "r", "s", "o", "n", "a", "l", " ", "s", "k", "i", "l", "l", "s" >>,
    << "r", "e", "f", "e", "r", "e", "n", "c", "e", "s" >>,
    << "c", "o", "n", "t", "a", "c", "t" >>,
    << "p", "e", "r", "s", "o", "n", "a", "l", " ", "i", "n", "f", "o", "r", "m", "a", "t", "i", "o", "n" >> }

\* isSectionHeader, lines 97-147
isSectionHeader(line) ==
  LET lowerLine == trim(toLowerCase(line))
  IN  \/ \E keyword \in sectionKeywords :
           \/ lowerLine = keyword
           \/ includes(lowerLine, keyword) /\ Len(line) < 50
      \/ /\ line = toUpperCase(line)
         /\ Len(line) > 2
         /\ Len(line) < 50
         /\ ~includes(line, << "@" >>)
         /\ ~includes(line, << "+" >>)
         /\ ~hasDatePattern(line)

\* the alternatives of jobTitlePatterns, lines 153-159
jobTitleWords ==
  {
    << "m", "a", "n", "a", "g", "e", "r" >>,
    << "d", "i", "r", "e", "c", "t", "o", "r" >>,
    << "e", "n", "g", "i", "n", "e", "e", "r" >>,
    << "d", "e", "v", "e", "l", "o", "p", "e", "r" >>,
    << "a", "n", "a", "l", "y", "s", "t" >>,
    << "c", "o", "n", "s", "u", "l", "t", "a", "n", "t" >>,
    << "c", "o", "o", "r", "d", "i", "n", "a", "t", "o", "r" >>,
    << "s", "p", "e", "c", "i", "a", "l", "i", "s", "t" >>,
    << "a", "s", "s", "i", "s", "t", "a", "n", "t" >>,
    << "l", "e", "a", "d" >>,
    << "s", "e", "n", "i", "o", "r" >>,
    << "j", "u", "n", "i", "o", "r" >>,
    << "c", "e", "o" >>,
    << "c", "t", "o" >>,
    << "c", "f", "o" >>,
    << "v", "p" >>,
    << "v", "i", "c", "e", " ", "p", "r", "e", "s", "i", "d", "e", "n", "t" >>,
    << "p", "r", "e", "s", "i", "d", "e", "n", "t" >>,
    << "h", "e", "a", "d" >>,
    << "c", "h", "i", "e", "f" >>,
    << "i", "n", "t", "e", "r", "n" >>,
    << "t", "r", "a", "i", "n", "e", "e" >>,
    << "a", "s", "s", "o", "c", "i", "a", "t", "e" >>,
    << "e", "x", "e", "c", "u", "t", "i", "v", "e" >>,
    << "o", "f", "f", "i", "c", "e", "r" >>,
    << "a", "d", "m", "i", "n", "i", "s", "t", "r", "a", "t", "o", "r" >>,
    << "d", "e", "s", "i", "g", "n", "e", "r" >>,
    << "a", "r", "c", "h", "i", "t", "e", "c", "t" >>,
    << "p", "r", "o", "g", "r", "a", "m", "m", "e", "r" >>,
    << "t", "e", "c", "h", "n", "i", "c", "i", "a", "n" >>,
    << "s", "u", "p", "e", "r", "v", "i", "s", "o", "r" >>,
    << "a", "m", "b", "a", "s", "s", "a", "d", "o", "r" >>,
    << "r", "e", "p", "r", "e", "s", "e", "n", "t", "a", "t", "i", "v", "e" >>,
    << "a", "d", "v", "i", "s", "o", "r" >>,
    << "i", "n", "s", "t", "r", "u", "c", "t", "o", "r" >>,
    << "t", "e", "a", "c", "h", "e", "r" >> }

\* a role word on the line and a date on the next line only
isJobTitleByNextLine(line, nextLine) ==
  MatchesWord(line, jobTitleWords) /\ hasDatePattern(nextLine)

\* isJobTitle, lines 152-166
isJobTitle(line, nextLine) ==
  \/ /\ MatchesWord(line, jobTitleWords)
     /\ hasDatePattern(line) \/ hasDatePattern(nextLine)
  \/ hasDatePattern(line) /\ Len(line) < 100 /\ Len(line) > 10

\* the alternatives of companyPatterns, lines 172-177
companyWords ==
  {
    << "i", "n", "c" >>,
    << "l", "l", "c" >>,
    << "c", "o", "r", "p" >>,
    << "c", "o", "m", "p", "a", "n", "y" >>,
    << "l", "t", "d" >>,
    << "l", "i", "m", "i", "t", "e", "d" >>,
    << "c", "o", "." >>,
    << "u", "n", "i", "v", "e", "r", "s", "i", "t", "y" >>,
    << "c", "o", "l", "l", "e", "g", "e" >>,
    << "s", "c", "h", "o", "o", "l" >>,
    << "i", "n", "s", "t", "i", "t", "u", "t", "e" >>,
    << "a", "c", "a", "d", "e", "m", "y" >>,
    << "m", "i", "n", "i", "s", "t", "r", "y" >>,
    << "g", "o", "v", "e", "r", "n", "m", "e", "n", "t" >>,
    << "d", "e", "p", "a", "r", "t", "m", "e", "n", "t" >>,
    << "a", "g", "e", "n", "c", "y" >>,
    << "g", "r", "o", "u", "p" >>,
    << "o", "r", "g", "a", "n", "i", "z", "a", "t", "i", "o", "n" >>,
    << "f", "o", "u", "n", "d", "a", "t", "i", "o", "n" >>,
    << "f", "i", "r", "m" >> }

\* isCompanyName, lines 171-186
isCompanyName(line, previousLine) ==
  \/ MatchesWord(line, companyWords)
  \/ /\ isJobTitle(previousLine, << >>)
     /\ ~hasDatePattern(line)
     /\ Len(line) < 80
     /\ Len(line) > 5

\* lines[i]?.trim() || "" for an index that may lie outside the array
LineAt(lines, i) == IF i \in DOMAIN lines THEN trim(lines[i]) ELSE << >>

\* the loop with the test of the job title ahead of the test of the header
StructureLineTitleFirst(lines, i) ==
  LET line     == trim(lines[i])
      nextLine == LineAt(lines, i + 1)
      prevLine == LineAt(lines, i - 1)
      isHash   == startsWith(line, << "#" >>)
  IN  IF line = << >> THEN << >>
      ELSE IF isJobTitle(line, nextLine) /\ ~isHash
        THEN << << "#", "#", "#", " " >> \o line, << >> >>
      ELSE IF isSectionHeader(line) /\ ~isHash
        THEN << << "#", "#", " " >> \o toUpperCase(line), << >> >>
      ELSE IF isCompanyName(line, prevLine)
        THEN << << "*", "*" >> \o line \o << "*", "*" >>, << >> >>
      ELSE << line >>

\* the lines pushed for lines[i] by the loop of lines 58-86
StructureLine(lines, i) ==
  LET line     == trim(lines[i])
      nextLine == LineAt(lines, i + 1)
      prevLine == LineAt(lines, i - 1)
      isHash   == startsWith(line, << "#" >>)
  IN  IF line = << >> THEN << >>
      ELSE IF isSectionHeader(line) /\ ~isHash
        THEN << << "#", "#", " " >> \o toUpperCase(line), << >> >>
      ELSE IF isJobTitle(line, nextLine) /\ ~isHash
        THEN << << "#", "#", "#", " " >> \o line, << >> >>
      ELSE IF isCompanyName(line, prevLine)
        THEN << << "*", "*" >> \o line \o << "*", "*" >>, << >> >>
      ELSE << line >>

\* processedLines after the loop has handled lines[i..]
RECURSIVE StructureLines(_, _)
StructureLines(lines, i) ==
  IF i > Len(lines) THEN << >>
  ELSE StructureLine(lines, i) \o StructureLines(lines, i + 1)

\* enhanceMarkdown, lines 32-92
enhanceMarkdown(markdown) ==
  LET enhanced       == cleanMarkdown(markdown)
      lines          == split(enhanced)
      processedLines == StructureLines(lines, 1)
  IN  trim(squeezeNewlines(join(processedLines), 1))

(***************************************************************************)
(* extractSections, lines 327-373.                                         *)
(***************************************************************************)
\* lines 336-338
experienceHeaderWords ==
  {
    << "e", "x", "p", "e", "r", "i", "e", "n", "c", "e" >>,
    << "w", "o", "r", "k" >>,
    << "e", "m", "p", "l", "o", "y", "m", "e", "n", "t" >> }

\* lines 342-344
skillsHeaderWords ==
  {
    << "s", "k", "i", "l", "l" >>,
    << "c", "o", "m", "p", "e", "t", "e", "n", "c" >>,
    << "e", "x", "p", "e", "r", "t", "i", "s", "e" >> }

\* lines 348-350
educationHeaderWords ==
  {
    << "e", "d", "u", "c", "a", "t", "i", "o", "n" >>,
    << "a", "c", "a", "d", "e", "m", "i", "c" >>,
    << "q", "u", "a", "l", "i", "f", "i", "c", "a", "t", "i", "o", "n" >> }

\* lines 354-356
certificationsHeaderWords ==
  {
    << "c", "e", "r", "t", "i", "f", "i", "c", "a", "t", "i", "o", "n" >>,
    << "c", "e", "r", "t", "i", "f", "i", "c", "a", "t", "e" >>,
    << "c", "o", "u", "r", "s", "e" >> }

\* line 359
projectsHeaderWords ==
  {
    << "p", "r", "o", "j", "e", "c", "t" >> }

\* lines 362-363
achievementsHeaderWords ==
  {
    << "a", "c", "h", "i", "e", "v", "e", "m", "e", "n", "t" >>,
    << "a", "w", "a", "r", "d" >> }

\* line 366
languagesHeaderWords ==
  {
    << "l", "a", "n", "g", "u", "a", "g", "e" >> }

\* content.includes(w) for some w of words
includesAny(content, words) == \E w \in words : includes(content, w)

\* line.replace(/^#+\s*/, "").toLowerCase()
sectionNameOf(line) ==
  LET j == RunEnd(line, 1, { "#" })
  IN  toLowerCase(IF j > 1 THEN Drop(line, RunEnd(line, j, Spaces)) ELSE line)

\* the flag of a line by its words alone, whether or not it is a header
sectionFlagOfAnyLine(line) ==
  LET sectionName == sectionNameOf(line)
  IN  IF includesAny(sectionName, experienceHeaderWords)
        THEN "experience"
      ELSE IF includesAny(sectionName, skillsHeaderWords)
        THEN "skills"
      ELSE IF includesAny(sectionName, educationHeaderWords)
        THEN "education"
      ELSE IF includesAny(sectionName, certificationsHeaderWords)
        THEN "certifications"
      ELSE IF includesAny(sectionName, projectsHeaderWords)
        THEN "projects"
      ELSE IF includesAny(sectionName, achievementsHeaderWords)
        THEN "achievements"
      ELSE IF includesAny(sectionName, languagesHeaderWords)
        THEN "languages"
      ELSE "none"

\* the chain with the branch of projects ahead of the branch of education
sectionFlagOfProjectsFirst(line) ==
  LET sectionName == sectionNameOf(line)
  IN  IF ~(startsWith(line, << "#", "#", " " >>)
             \/ startsWith(line, << "#", " " >>))
        THEN "none"
      ELSE IF includesAny(sectionName, experienceHeaderWords)
        THEN "experience"
      ELSE IF includesAny(sectionName, skillsHeaderWords)
        THEN "skills"
      ELSE IF includesAny(sectionName, projectsHeaderWords)
        THEN "projects"
      ELSE IF includesAny(sectionName, educationHeaderWords)
        THEN "education"
      ELSE IF includesAny(sectionName, certificationsHeaderWords)
        THEN "certifications"
      ELSE IF includesAny(sectionName, achievementsHeaderWords)
        THEN "achievements"
      ELSE IF includesAny(sectionName, languagesHeaderWords)
        THEN "languages"
      ELSE "none"

\* the flag that one line sets (the if / else-if chain of lines 335-368),
\* or "none"
sectionFlagOf(line) ==
  LET sectionName == sectionNameOf(line)
  IN  IF ~(startsWith(line, << "#", "#", " " >>)
             \/ startsWith(line, << "#", " " >>))
        THEN "none"
      ELSE IF includesAny(sectionName, experienceHeaderWords)
        THEN "experience"
      ELSE IF includesAny(sectionName, skillsHeaderWords)
        THEN "skills"
      ELSE IF includesAny(sectionName, educationHeaderWords)
        THEN "education"
      ELSE IF includesAny(sectionName, certificationsHeaderWords)
        THEN "certifications"
      ELSE IF includesAny(sectionName, projectsHeaderWords)
        THEN "projects"
      ELSE IF includesAny(sectionName, achievementsHeaderWords)
        THEN "achievements"
      ELSE IF includesAny(sectionName, languagesHeaderWords)
        THEN "languages"
      ELSE "none"

\* extractSections: the set of the keys that are set to true
extractSections(markdown) ==
  LET lines == split(markdown)
  IN  { sectionFlagOf(lines[i]) : i \in DOMAIN lines } \ { "none" }

(***************************************************************************)
(* generateIntelligentPrompts, lines 206-322.                              *)
(***************************************************************************)
\* lines 222-224
leadershipWords ==
  {
    << "s", "e", "n", "i", "o", "r" >>,
    << "l", "e", "a", "d" >>,
    << "m", "a", "n", "a", "g", "e", "r" >> }

\* line 229
remoteWords ==
  {
    << "r", "e", "m", "o", "t", "e" >>,
    << "f", "r", "e", "e", "l", "a", "n", "c", "e" >> }

\* lines 239-241
javascriptWords ==
  {
    << "j", "a", "v", "a", "s", "c", "r", "i", "p", "t" >>,
    << "r", "e", "a", "c", "t" >>,
    << "n", "o", "d", "e" >> }

\* lines 247-249
dataWords ==
  {
    << "p", "y", "t", "h", "o", "n" >>,
    << "d", "a", "t", "a" >>,
    << "s", "q", "l" >> }

\* lines 255-257
designWords ==
  {
    << "d", "e", "s", "i", "g", "n" >>,
    << "a", "d", "o", "b", "e" >>,
    << "u", "i", "/", "u", "x" >> }

\* lines 268-269
technicalEducationWords ==
  {
    << "c", "o", "m", "p", "u", "t", "e", "r", " ", "s", "c", "i", "e", "n", "c", "e" >>,
    << "s", "o", "f", "t", "w", "a", "r", "e", " ", "e", "n", "g", "i", "n", "e", "e", "r", "i", "n", "g" >> }

\* line 274
trainingWords ==
  {
    << "b", "o", "o", "t", "c", "a", "m", "p" >>,
    << "c", "e", "r", "t", "i", "f", "i", "c", "a", "t", "i", "o", "n" >> }

\* line 284
fullStackWords ==
  {
    << "e", "-", "c", "o", "m", "m", "e", "r", "c", "e" >>,
    << "f", "u", "l", "l", "-", "s", "t", "a", "c", "k" >> }

\* line 290
WordReact == << "r", "e", "a", "c", "t" >>

WordNode == << "n", "o", "d", "e" >>

\* line 294
databaseWords ==
  {
    << "m", "o", "n", "g", "o", "d", "b" >>,
    << "d", "a", "t", "a", "b", "a", "s", "e" >> }

\* lines 300-302
teamWords ==
  {
    << "t", "e", "a", "m" >>,
    << "c", "o", "l", "l", "a", "b", "o", "r", "a", "t", "i", "o", "n" >>,
    << "s", "c", "r", "u", "m" >> }

\* lines 309-311
languageWords ==
  {
    << "l", "a", "n", "g", "u", "a", "g", "e" >>,
    << "a", "r", "a", "b", "i", "c" >>,
    << "e", "n", "g", "l", "i", "s", "h" >> }

\* line 317
locationWords ==
  {
    << "s", "a", "u", "d", "i" >>,
    << "r", "i", "y", "a", "d", "h" >> }

\* the number of prompts kept by prompts.slice(0, 15)
PromptLimit == 15

\* the prompts pushed when cond holds
When(cond, prompts) == IF cond THEN prompts ELSE << >>

\* the array `prompts` before the slice of line 321
allPrompts(markdown) ==
  LET content  == toLowerCase(markdown)
      sections == extractSections(markdown)
  IN  << "Summarize my CV in 3-4 sentences",
         "What are my contact details?" >>
      \o When("experience" \in sections,
              << "What is my work experience?",
                 "What are my most recent job responsibilities?",
                 "What companies have I worked for?" >>
              \o When(includesAny(content, leadershipWords),
                      << "What leadership experience do I have?" >>)
              \o When(includesAny(content, remoteWords),
                      << "What remote work experience do I have?" >>))
      \o When("skills" \in sections,
              << "What are my technical skills?" >>
              \o When(includesAny(content, javascriptWords),
                      << "What JavaScript and web development skills do I have?" >>)
              \o When(includesAny(content, dataWords),
                      << "What programming and data analysis skills do I have?" >>)
              \o When(includesAny(content, designWords),
                      << "What design skills do I have?" >>))
      \o When("education" \in sections,
              << "What is my educational background?" >>
              \o When(includesAny(content, technicalEducationWords),
                      << "What is my technical education?" >>)
              \o When(includesAny(content, trainingWords),
                      << "What additional training and certifications do I have?" >>))
      \o When("projects" \in sections,
              << "What projects have I worked on?",
                 "Can you describe my key projects in detail?" >>
              \o When(includesAny(content, fullStackWords),
                      << "What full-stack development projects have I completed?" >>))
      \o When(includes(content, WordReact) /\ includes(content, WordNode),
              << "What full-stack JavaScript experience do I have?" >>)
      \o When(includesAny(content, databaseWords),
              << "What database experience do I have?" >>)
      \o When(includesAny(content, teamWords),
              << "What teamwork and collaboration skills do I have?" >>)
      \o When(includesAny(content, languageWords),
              << "What languages do I speak?" >>)
      \o When(includesAny(content, locationWords),
              << "What is my location and work availability?" >>)

\* the prompts of all the rules, without the slice
generateIntelligentPromptsUncut(markdown) == allPrompts(markdown)

\* generateIntelligentPrompts: prompts.slice(0, 15)
generateIntelligentPrompts(markdown) ==
  LET prompts == allPrompts(markdown)
  IN  SubSeq(prompts, 1, Min(PromptLimit, Len(prompts)))

(***************************************************************************)
(* The state of the program.                                               *)
(***************************************************************************)
VARIABLES
  db,          \* the rows of the table cv_uploads; the id of a row is its index
  files,       \* the uploads directory: stored path |-> bytes of the file
  nextPath,    \* the stored path that the disk storage hands out next
  calls,       \* the generatePrompts requests, one per slot
  lastUpload,  \* the latest request to POST /cv/upload and its outcome
  work         \* the text functions applied on their own, and their result

vars == << db, files, nextPath, calls, lastUpload, work >>

\* a value that may be null: Null, or Some(v)
Null == << >>

Some(v) == << v >>

\* ids of the principals; NoUser is a request without a valid bearer token
Users == 1..NumUsers

NoUser == 0

\* the :uploadId parameters that requests carry (one of them never exists)
UploadIds == 1..(MaxUploads + 1)

Calls == 1..MaxCalls

\* the characters of the raw texts, and the raw texts
RawChars == << "a", " ", "U+2022", "\n", "#", "1", ".", ",", "A" >>

RawAlphabet == { RawChars[i] : i \in 1..Min(NumRawChars, Len(RawChars)) }

RawTexts == UNION { [1..n -> RawAlphabet] : n \in 0..MaxRawLen }

\* the bytes of an uploaded file, given by what pdf2md makes of them: text
\* for a PDF, a rejection for anything else
FileBytes ==
  [pdf : { TRUE }, text : RawTexts] \cup { [pdf |-> FALSE, text |-> << >>] }

MimeTypes == { "application/pdf", "text/plain" }

\* await pdf2md(fileBuffer), line 501
pdf2md(fileBuffer) ==
  IF fileBuffer.pdf
    THEN [ok |-> TRUE, text |-> fileBuffer.text]
    ELSE [ok |-> FALSE, text |-> << >>]

(***************************************************************************)
(* uploadCv and its route, lines 379-411 and 583.                          *)
(***************************************************************************)
\* the row inserted at lines 393-399; the other columns default to null
NewRow(userId, path, mimetype) ==
  [ user_id        |-> userId,
    stored_path    |-> path,
    mimetype       |-> mimetype,
    status         |-> "uploaded",
    extracted_text |-> Null,
    prompts        |-> Null,
    error_msg      |-> Null,
    processed_at   |-> Null ]

AcceptsAnyFile(hasFile, mimetype) == hasFile

\* the file is acceptable to uploadCv, lines 385-389
AcceptsFile(hasFile, mimetype) == hasFile /\ mimetype = "application/pdf"

\* the request of one upload and what became of it: the HTTP status, the
\* path multer stored the file at (0: none) and the id of the row (0: none)
UploadOutcome(user, hasFile, mimetype, tooLarge, insertError, status, path, id) ==
  [ user |-> user, hasFile |-> hasFile, mimetype |-> mimetype,
    tooLarge |-> tooLarge, insertError |-> insertError,
    status |-> status, path |-> path, uploadId |-> id ]

\* POST /cv/upload: authenticate, upload.single("file"), uploadCv.  Errors
\* is the set of answers the datastore may give: TRUE is a failure
Upload(Errors) ==
  \E user \in Users \cup { NoUser }, hasFile \in BOOLEAN,
     mimetype \in MimeTypes, tooLarge \in BOOLEAN, bytes \in FileBytes,
     insertError \in Errors :
    LET outcome(status, path, id) ==
          UploadOutcome(user, hasFile, mimetype, tooLarge, insertError,
                        status, path, id)
        stored == user # NoUser /\ hasFile /\ ~tooLarge
    IN  /\ nextPath <= MaxUploads
        \* inputs that play no part in a request take one value
        /\ ~stored => bytes = [pdf |-> FALSE, text |-> << >>]
        /\ ~hasFile => mimetype = "application/pdf" /\ ~tooLarge
        /\ ~(stored /\ AcceptsFile(hasFile, mimetype)) => ~insertError
        /\ user = NoUser => ~hasFile
        /\ IF user = NoUser
             \* authenticate answers 401 and nothing runs after it
             THEN /\ lastUpload' = outcome(401, 0, 0)
                  /\ UNCHANGED << db, files, nextPath >>
           ELSE IF hasFile /\ tooLarge
             \* limits.fileSize, line 26: multer removes the partial file
             \* and passes the error on; uploadCv does not run
             THEN /\ lastUpload' = outcome(500, 0, 0)
                  /\ UNCHANGED << db, files, nextPath >>
           ELSE IF ~hasFile
             \* line 385
             THEN /\ lastUpload' = outcome(400, 0, 0)
                  /\ UNCHANGED << db, files, nextPath >>
           ELSE IF ~AcceptsFile(hasFile, mimetype)
             \* lines 386-389: the stored file is unlinked again
             THEN /\ lastUpload' = outcome(400, nextPath, 0)
                  /\ nextPath' = nextPath + 1
                  /\ UNCHANGED << db, files >>
           ELSE IF insertError
             \* line 403: throw error, caught at 408, next(err)
             THEN /\ lastUpload' = outcome(500, nextPath, 0)
                  /\ files' = (nextPath :> bytes) @@ files
                  /\ nextPath' = nextPath + 1
                  /\ UNCHANGED db
           \* lines 391-407
           ELSE /\ db' = Append(db, NewRow(user, nextPath, mimetype))
                /\ files' = (nextPath :> bytes) @@ files
                /\ lastUpload' = outcome(201, nextPath, Len(db) + 1)
                /\ nextPath' = nextPath + 1
        /\ UNCHANGED << calls, work >>

(***************************************************************************)
(* generatePrompts and its route, lines 445-573 and 586.  pc names the     *)
(* await the call is suspended at.                                         *)
(***************************************************************************)
\* a slot without a request
Idle ==
  [ pc |-> "idle", user |-> NoUser, uploadId |-> 1, force |-> FALSE,
    rows |-> Null, buf |-> Null, out |-> Null, err |-> Null, res |-> Null ]

\* res.status(code).json({ error })
ErrorResponse(code, error) ==
  [ status |-> code, error |-> Some(error), body |-> Null ]

\* the number of characters of the summary, line 533
SummaryLimit == 500

\* enhancedMarkdown.substring(0, 500) + (length > 500 ? "..." : "")
summaryOf(enhancedMarkdown) ==
  SubSeq(enhancedMarkdown, 1, Min(SummaryLimit, Len(enhancedMarkdown)))
    \o (IF Len(enhancedMarkdown) > SummaryLimit
          THEN << ".", ".", "." >>
          ELSE << >>)

\* res.json({ extractedText, markdownContent, examplePrompts }), lines 553-557
SuccessResponse(enhancedMarkdown, prompts) ==
  [ status |-> 200,
    error  |-> Null,
    body   |-> Some([ extractedText   |-> summaryOf(enhancedMarkdown),
                      markdownContent |-> enhancedMarkdown,
                      examplePrompts  |-> prompts ]) ]

\* the call answers and is over
Reply(call, response) == [call EXCEPT !.pc = "done", !.res = Some(response)]

\* throw inside the try block: control passes to the catch of line 558
Throw(call, message) == [call EXCEPT !.pc = "catch", !.err = Some(message)]

FetchRowOfAnyOwner(table, uploadId, userId) ==
  IF uploadId \in DOMAIN table
    THEN Some([ stored_path |-> table[uploadId].stored_path,
                status      |-> table[uploadId].status ])
    ELSE Null

\* .select("stored_path, status").eq("id", uploadId)
\* .eq("user_id", req.user?.id).maybeSingle(), lines 453-458
FetchRow(table, uploadId, userId) ==
  IF uploadId \in DOMAIN table /\ table[uploadId].user_id = userId
    THEN Some([ stored_path |-> table[uploadId].stored_path,
                status      |-> table[uploadId].status ])
    ELSE Null

MayProcessUnlessProcessed(status, allowReprocess) ==
  ~(status = "processed" /\ ~allowReprocess)

\* the negation of the condition of line 466
MayProcess(status, allowReprocess) ==
  ~(status # "uploaded" /\ ~allowReprocess)

ResetPatchKeepsTimestamp == [ status |-> "uploaded", error_msg |-> Null ]

\* the update of lines 476-480
ResetPatch ==
  [ status |-> "uploaded", error_msg |-> Null, processed_at |-> Null ]

ProcessedPatchWithoutTimestamp(enhancedMarkdown, prompts) ==
  [ status         |-> "processed",
    extracted_text |-> Some(enhancedMarkdown),
    prompts        |-> Some(prompts) ]

\* the update of lines 542-547; "now" stands for new Date().toISOString()
ProcessedPatch(enhancedMarkdown, prompts) ==
  [ status         |-> "processed",
    extracted_text |-> Some(enhancedMarkdown),
    prompts        |-> Some(prompts),
    processed_at   |-> Some("now") ]

ErrorPatchWithoutMessage(message) ==
  [ status |-> "error", processed_at |-> Some("now") ]

\* the update of lines 564-568
ErrorPatch(message) ==
  [ status       |-> "error",
    error_msg    |-> Some(message),
    processed_at |-> Some("now") ]

UpdateByIdIfUploaded(table, uploadId, patch) ==
  [id \in DOMAIN table |->
     IF id = uploadId /\ table[id].status = "uploaded"
       THEN [col \in DOMAIN table[id] |->
               IF col \in DOMAIN patch THEN patch[col] ELSE table[id][col]]
       ELSE table[id]]

\* .update(patch).eq("id", uploadId): the columns of the patch are written
\* to the rows with that id, if any
UpdateById(table, uploadId, patch) ==
  [id \in DOMAIN table |->
     IF id = uploadId
       THEN [col \in DOMAIN table[id] |->
               IF col \in DOMAIN patch THEN patch[col] ELSE table[id][col]]
       ELSE table[id]]

NoContentUntrimmed(rawMarkdown) == rawMarkdown = << >>

\* the condition of line 503
NoContent(rawMarkdown) ==
  rawMarkdown = << >> \/ Len(trim(rawMarkdown)) = 0

unlinkSyncKeepsFile(fs, path) == fs

\* fs.unlinkSync(filePath), line 537, of a file that exists
unlinkSync(fs, path) == [p \in DOMAIN fs \ { path } |-> fs[p]]

\* lines 486-501, from the log line up to the await of pdf2md
ReadFile(call, fs) ==
  LET path == call.rows[1].stored_path
  IN  IF path \notin DOMAIN fs
        THEN Throw(call, "File not found")
        ELSE [call EXCEPT !.pc = "extract", !.buf = Some(fs[path])]

\* the request arrives: authenticate (line 586), then the fetch is sent
Request(c) ==
  \E user \in Users \cup { NoUser }, uploadId \in UploadIds,
     force \in BOOLEAN :
    /\ calls[c].pc = "idle"
    \* the requests are numbered in the order of their arrival
    /\ \A d \in Calls : d < c => calls[d].pc # "idle"
    /\ user = NoUser => uploadId = 1 /\ ~force
    /\ calls' =
         [calls EXCEPT ![c] =
            IF user = NoUser
              THEN Reply(Idle, ErrorResponse(401, "No token provided"))
              ELSE [Idle EXCEPT !.pc = "fetch", !.user = user,
                                !.uploadId = uploadId, !.force = force]]
    /\ UNCHANGED << db, files, nextPath, lastUpload, work >>

\* the fetch of line 453 completes; lines 460-501 up to the next await
Fetch(c, Errors) ==
  \E fetchError \in Errors :
    LET call == calls[c]
        rows == FetchRow(db, call.uploadId, call.user)
        allowReprocess == call.force
    IN  /\ call.pc = "fetch"
        /\ calls' =
             [calls EXCEPT ![c] =
                IF fetchError
                  THEN Throw(call, "fetch failed")
                ELSE IF rows = Null
                  THEN Reply(call, ErrorResponse(404, "Upload not found"))
                ELSE IF ~MayProcess(rows[1].status, allowReprocess)
                  THEN Reply([call EXCEPT !.rows = rows],
                             ErrorResponse(400, "Cannot re-process"))
                ELSE IF allowReprocess /\ rows[1].status # "uploaded"
                  THEN [call EXCEPT !.rows = rows, !.pc = "reset"]
                ELSE ReadFile([call EXCEPT !.rows = rows], files)]
        /\ UNCHANGED << db, files, nextPath, lastUpload, work >>

\* the update of line 474 completes; lines 482-501 up to the next await
Reset(c, Errors) ==
  \E resetError \in Errors :
    LET call == calls[c]
    IN  /\ call.pc = "reset"
        /\ IF resetError
             THEN /\ calls' = [calls EXCEPT ![c] = Throw(call, "reset failed")]
                  /\ UNCHANGED db
             ELSE /\ db' = UpdateById(db, call.uploadId, ResetPatch)
                  /\ calls' = [calls EXCEPT ![c] = ReadFile(call, files)]
        /\ UNCHANGED << files, nextPath, lastUpload, work >>

\* pdf2md settles; lines 503-540 up to the await of the update
Extract(c) ==
  LET call             == calls[c]
      path             == call.rows[1].stored_path
      result           == pdf2md(call.buf[1])
      rawMarkdown      == result.text
      cleaned          == repair(rawMarkdown)
      enhancedMarkdown == enhanceMarkdown(cleaned)
      prompts          == generateIntelligentPrompts(enhancedMarkdown)
  IN  /\ call.pc = "extract"
      /\ IF ~result.ok
           THEN /\ calls' = [calls EXCEPT ![c] = Throw(call, "pdf2md failed")]
                /\ UNCHANGED files
         ELSE IF NoContent(rawMarkdown)
           THEN /\ calls' =
                     [calls EXCEPT ![c] =
                        Throw(call,
                              "No content could be extracted from the PDF")]
                /\ UNCHANGED files
         ELSE IF path \notin DOMAIN files
           \* fs.unlinkSync of line 537 throws ENOENT
           THEN /\ calls' = [calls EXCEPT ![c] = Throw(call, "ENOENT")]
                /\ UNCHANGED files
         ELSE /\ files' = unlinkSync(files, path)
              /\ calls' =
                   [calls EXCEPT ![c] =
                      [call EXCEPT !.pc = "update",
                                   !.out = Some([ enhancedMarkdown |->
                                                    enhancedMarkdown,
                                                  prompts |-> prompts ])]]
      /\ UNCHANGED << db, nextPath, lastUpload, work >>

\* the update of line 540 completes; lines 550-557
Update(c, Errors) ==
  \E updateError \in Errors :
    LET call == calls[c]
        out  == call.out[1]
    IN  /\ call.pc = "update"
        /\ IF updateError
             THEN /\ calls' = [calls EXCEPT ![c] = Throw(call, "update failed")]
                  /\ UNCHANGED db
             ELSE /\ db' = UpdateById(db, call.uploadId,
                                       ProcessedPatch(out.enhancedMarkdown,
                                                      out.prompts))
                  /\ calls' =
                       [calls EXCEPT ![c] =
                          Reply(call, SuccessResponse(out.enhancedMarkdown,
                                                      out.prompts))]
        /\ UNCHANGED << files, nextPath, lastUpload, work >>

\* the catch block, lines 558-572: the row is marked and the error passed
\* on.  The handler does not look at the result of this update, which is
\* taken as applied
Catch(c) ==
  LET call == calls[c]
      message == call.err[1]
  IN  /\ call.pc = "catch"
      /\ db' = UpdateById(db, call.uploadId, ErrorPatch(message))
      /\ calls' = [calls EXCEPT ![c] = Reply(call, ErrorResponse(500, message))]
      /\ UNCHANGED << files, nextPath, lastUpload, work >>

\* nothing drawn: the value of work while the handlers run
NoWork == [ input |-> << >>, ops |-> << >>, arg |-> << >>, out |-> << >> ]

Init ==
  /\ db = << >>
  /\ files = << >>
  /\ nextPath = 1
  /\ calls = [c \in Calls |-> Idle]
  /\ lastUpload = UploadOutcome(NoUser, FALSE, "application/pdf", FALSE,
                                FALSE, 0, 0, 0)
  /\ work = NoWork

\* the queries whose error the handlers look at (insert, fetch, reset, final
\* update) may fail
Next ==
  \/ Upload(BOOLEAN)
  \/ \E c \in Calls : Request(c)
  \/ \E c \in Calls : Fetch(c, BOOLEAN)
  \/ \E c \in Calls : Reset(c, BOOLEAN)
  \/ \E c \in Calls : Extract(c)
  \/ \E c \in Calls : Update(c, BOOLEAN)
  \/ \E c \in Calls : Catch(c)

Spec == Init /\ [][Next]_vars

\* the datastore answers every query
ReliableNext ==
  \/ Upload({ FALSE })
  \/ \E c \in Calls : Request(c)
  \/ \E c \in Calls : Fetch(c, { FALSE })
  \/ \E c \in Calls : Reset(c, { FALSE })
  \/ \E c \in Calls : Extract(c)
  \/ \E c \in Calls : Update(c, { FALSE })
  \/ \E c \in Calls : Catch(c)

ReliableSpec == Init /\ [][ReliableNext]_vars

(***************************************************************************)
(* The text functions on their own.  A text is drawn, and repair,          *)
(* enhanceMarkdown, generateIntelligentPrompts and the classifiers of      *)
(* lines are applied to it and to the results of one another; work holds   *)
(* the text that was drawn, the names of the functions applied so far, the *)
(* argument of the last one and its result.                                *)
(***************************************************************************)
\* a raw extraction of seven lines: a spaced-out name, two section names,
\* a job title with its years, a company, a bullet and a degree
ResumeExample ==
  << "J", " ", "o", " ", "h", " ", "n", " ", " ", " ", "D", " ", "o", " ",
     "e", "\n", "E", "X", "P", "E", "R", "I", "E", "N", "C", "E", "\n", "S",
     "e", "n", "i", "o", "r", " ", "E", "n", "g", "i", "n", "e", "e", "r",
     " ", " ", "2", "0", "1", "9", " ", "-", " ", "2", "0", "2", "3", "\n",
     "A", "c", "m", "e", " ", "I", "n", "c", "\n", "-", " ", "B", "u", "i",
     "l", "t", " ", "t", "h", "i", "n", "g", "s", "\n", "E", "D", "U", "C",
     "A", "T", "I", "O", "N", "\n", "B", "S", " ", "C", "o", "m", "p", "u",
     "t", "e", "r", " ", "S", "c", "i", "e", "n", "c", "e" >>

\* single letters separated by spaces
SpacedLetters ==
  << "H", " ", "e", " ", "l", " ", "l", " ", "o", " ", " ", " ", "w", " ",
     "o", " ", "r", " ", "l", " ", "d" >>

\* normal prose, no white space before its punctuation
PlainProse ==
  << "H", "e", "l", "l", "o", " ", "w", "o", "r", "l", "d", ",", " ", "f",
     "r", "i", "e", "n", "d", "." >>

\* normal prose with white space before its punctuation
SpacedProse ==
  << "H", "e", "l", "l", "o", " ", "w", "o", "r", "l", "d", " ", ",", " ",
     "f", "r", "i", "e", "n", "d", " ", "." >>

\* a line that is a section name in capitals
LineExperience ==
  << "E", "X", "P", "E", "R", "I", "E", "N", "C", "E" >>

\* a line with a role and a range of years
LineSoftwareEngineer ==
  << "S", "o", "f", "t", "w", "a", "r", "e", " ", "E", "n", "g", "i", "n",
     "e", "e", "r", ",", " ", "2", "0", "2", "0", " ", "-", " ", "P", "r",
     "e", "s", "e", "n", "t" >>


\* the lines that the markdown inputs are made of: headers of sections and
\* lines of words that the rules of generateIntelligentPrompts look for
MarkdownLines ==
  << << "#", "#", " ", "E", "X", "P", "E", "R", "I", "E", "N", "C", "E" >>,
     << "#", "#", " ", "S", "K", "I", "L", "L", "S" >>,
     << "#", "#", " ", "E", "D", "U", "C", "A", "T", "I", "O", "N" >>,
     << "#", "#", " ", "P", "R", "O", "J", "E", "C", "T", "S" >>,
     << "s", "e", "n", "i", "o", "r", " ", "r", "e", "m", "o", "t", "e",
          " ", "j", "a", "v", "a", "s", "c", "r", "i", "p", "t", " ", "r",
          "e", "a", "c", "t", " ", "n", "o", "d", "e" >>,
     << "p", "y", "t", "h", "o", "n", " ", "d", "e", "s", "i", "g", "n",
          " ", "c", "o", "m", "p", "u", "t", "e", "r", " ", "s", "c", "i",
          "e", "n", "c", "e", " ", "b", "o", "o", "t", "c", "a", "m", "p" >>,
     << "e", "-", "c", "o", "m", "m", "e", "r", "c", "e", " ", "p", "r",
          "o", "j", "e", "c", "t", "s", " ", "e", "d", "u", "c", "a", "t",
          "i", "o", "n", " ", "m", "o", "n", "g", "o", "d", "b", " ", "t",
          "e", "a", "m", " ", "e", "n", "g", "l", "i", "s", "h", " ", "s",
          "a", "u", "d", "i" >>,
     << "#", "#", " ", "L", "A", "N", "G", "U", "A", "G", "E", "S" >>,
     << "#", " ", "A", "w", "a", "r", "d", "s" >> >>

\* the header of the skills section
HeaderSkills ==
  << "#", "#", " ", "S", "K", "I", "L", "L", "S" >>

\* the lines of MarkdownLines whose index is in S, in their order
RECURSIVE PickLines(_, _)
PickLines(S, i) ==
  IF i > Len(MarkdownLines) THEN << >>
  ELSE (IF i \in S THEN << MarkdownLines[i] >> ELSE << >>)
         \o PickLines(S, i + 1)

\* the markdown inputs: every choice of lines among the first ones
Markdowns ==
  { join(PickLines(S, 1)) :
      S \in SUBSET (1..Min(NumMarkdownLines, Len(MarkdownLines))) }

\* the characters of the short texts, and the short texts
TextChars == << "a", " ", ",", "\n", "A", "1", "#", "-" >>

TextAlphabet == { TextChars[i] : i \in 1..Min(NumTextChars, Len(TextChars)) }

ShortTexts == UNION { [1..n -> TextAlphabet] : n \in 0..MaxTextLen }

\* three letters with one space between them
SpacedABC ==
  << "a", " ", "b", " ", "c" >>

\* the header of a certifications section
HeaderCertifications ==
  << "#", "#", " ", "C", "E", "R", "T", "I", "F", "I", "C", "A", "T", "I",
     "O", "N", "S" >>

\* the header of an achievements section
HeaderAwards ==
  << "#", " ", "A", "w", "a", "r", "d", "s" >>

\* a subheader, a header with the words of two sections, a # without
\* its space, an indented header, a header of no section and a line of text
SectionsExample ==
  << "#", "#", "#", " ", "W", "o", "r", "k", " ", "E", "x", "p", "e", "r",
     "i", "e", "n", "c", "e", "\n", "#", "#", " ", "E", "d", "u", "c", "a",
     "t", "i", "o", "n", " ", "a", "n", "d", " ", "P", "r", "o", "j", "e",
     "c", "t", "s", "\n", "#", "S", "k", "i", "l", "l", "s", "\n", " ", " ",
     "#", " ", "L", "a", "n", "g", "u", "a", "g", "e", "s", "\n", "#", " ",
     "H", "o", "b", "b", "i", "e", "s", "\n", "A", "w", "a", "r", "d", "s" >>

\* a line with the name of a section, a role, a company word and years
LineHeaderTitleCompany ==
  << "E", "x", "p", "e", "r", "i", "e", "n", "c", "e", " ", "M", "a", "n",
     "a", "g", "e", "r", " ", "I", "n", "c", " ", "2", "0", "2", "0", " ",
     "-", " ", "2", "0", "2", "1" >>

\* a line with a role, a company word and years, and no name of a section
LineTitleCompany ==
  << "S", "e", "n", "i", "o", "r", " ", "E", "n", "g", "i", "n", "e", "e",
     "r", " ", "A", "c", "m", "e", " ", "I", "n", "c", " ", "2", "0", "2",
     "0", " ", "-", " ", "2", "0", "2", "1" >>

ExampleTexts ==
  { ResumeExample, SpacedLetters, PlainProse, SpacedProse, LineExperience,
    LineSoftwareEngineer, SpacedABC, HeaderCertifications, HeaderAwards,
    SectionsExample, LineHeaderTitleCompany, LineTitleCompany }

TextInputs == ShortTexts \cup Markdowns \cup ExampleTexts

\* the result at hand is a text
HasText ==
  IF work.ops = << >> THEN TRUE
  ELSE work.ops[Len(work.ops)] \in { "repair", "enhanceMarkdown" }

\* the function named op is applied to the result at hand
Applied(op, result) ==
  [work EXCEPT !.ops = Append(@, op), !.arg = work.out, !.out = result]

\* what the classifiers say of the first line of a text, the second line
\* being its next line, as the loop of enhanceMarkdown calls them
Classify(text) ==
  LET lines    == split(text)
      line     == LineAt(lines, 1)
      nextLine == LineAt(lines, 2)
  IN  [ line      |-> line,
        header    |-> isSectionHeader(line),
        jobTitle  |-> isJobTitle(line, nextLine),
        company   |-> isCompanyName(nextLine, line),
        date      |-> hasDatePattern(line) ]

\* cleaned = repair of the text at hand, generatePrompts lines 506-521
ApplyRepair ==
  /\ HasText
  /\ Len(work.ops) < MaxOps
  /\ work' = Applied("repair", repair(work.out))
  /\ UNCHANGED << db, files, nextPath, calls, lastUpload >>

\* enhanceMarkdown of the text at hand
ApplyEnhance ==
  /\ HasText
  /\ Len(work.ops) < MaxOps
  /\ work' = Applied("enhanceMarkdown", enhanceMarkdown(work.out))
  /\ UNCHANGED << db, files, nextPath, calls, lastUpload >>

\* generateIntelligentPrompts of the text at hand, or once more of the text
\* it was last applied to
ApplyPrompts ==
  /\ Len(work.ops) < MaxOps
  /\ \/ /\ HasText
        /\ work' = Applied("generateIntelligentPrompts",
                           generateIntelligentPrompts(work.out))
     \/ /\ work.ops # << >>
        /\ work.ops[Len(work.ops)] = "generateIntelligentPrompts"
        /\ work' = [work EXCEPT
                      !.ops = Append(@, "generateIntelligentPrompts"),
                      !.out = generateIntelligentPrompts(work.arg)]
  /\ UNCHANGED << db, files, nextPath, calls, lastUpload >>

\* the classifiers of lines on the text at hand
ApplyClassify ==
  /\ HasText
  /\ Len(work.ops) < MaxOps
  /\ work' = Applied("classify", Classify(work.out))
  /\ UNCHANGED << db, files, nextPath, calls, lastUpload >>

\* extractSections of the text at hand, line 209
ApplyExtractSections ==
  /\ HasText
  /\ Len(work.ops) < MaxOps
  /\ work' = Applied("extractSections", extractSections(work.out))
  /\ UNCHANGED << db, files, nextPath, calls, lastUpload >>

TextInit ==
  /\ db = << >>
  /\ files = << >>
  /\ nextPath = 1
  /\ calls = [c \in Calls |-> Idle]
  /\ lastUpload = UploadOutcome(NoUser, FALSE, "application/pdf", FALSE,
                                FALSE, 0, 0, 0)
  /\ \E text \in TextInputs : work = [NoWork EXCEPT !.input = text,
                                                    !.out = text]

TextNext ==
  \/ ApplyRepair
  \/ ApplyEnhance
  \/ ApplyPrompts
  \/ ApplyClassify
  \/ ApplyExtractSections

TextSpec == TextInit /\ [][TextNext]_vars

(***************************************************************************)
(* Properties of generatePrompts and uploadCv.                             *)
(***************************************************************************)
\* the step completes the fetch of call c, and the datastore answered it
FetchAnswered(c) ==
  /\ calls[c].pc = "fetch"
  /\ calls'[c].pc # "fetch"
  /\ calls'[c].err # Some("fetch failed")

\* call c is made by the owner of an existing row
ByOwner(c) ==
  /\ calls[c].uploadId \in DOMAIN db
  /\ db[calls[c].uploadId].user_id = calls[c].user

\* C1: when the owner calls without force=true and the fetch returns a row
\* whose status is not 'uploaded', the call answers 400 at once and changes
\* neither the row nor the file.
InvalidStateRejected ==
  [][\A c \in Calls :
       (/\ FetchAnswered(c)
        /\ ByOwner(c)
        /\ db[calls[c].uploadId].status # "uploaded"
        /\ ~calls[c].force)
       => /\ calls'[c].pc = "done"
          /\ calls'[c].res = Some(ErrorResponse(400, "Cannot re-process"))
          /\ db' = db
          /\ files' = files]_vars

\* a call of the owner, without force, was answered 400 on a processed row
InvalidStateWitness ==
  \E c \in Calls :
    /\ calls[c].pc = "done"
    /\ ~calls[c].force
    /\ calls[c].rows # Null
    /\ calls[c].rows[1].status = "processed"
    /\ calls[c].res[1].status = 400
    /\ db[calls[c].uploadId].user_id = calls[c].user

\* C2: when the fetch of a call is answered and the id names a row of
\* another principal, the call answers 404 'Upload not found' and changes
\* nothing, the same answer as for an id without a row, whatever the status
\* of the row and the force flag.
ForeignUploadNotFound ==
  [][\A c \in Calls :
       (FetchAnswered(c) /\ ~ByOwner(c))
       => /\ calls'[c] =
               Reply(calls[c], ErrorResponse(404, "Upload not found"))
          /\ db' = db
          /\ files' = files]_vars

\* a call with force=true on the processed row of another principal was
\* answered 404
ForeignUploadWitness ==
  \E c \in Calls :
    /\ calls[c].pc = "done"
    /\ calls[c].force
    /\ calls[c].uploadId \in DOMAIN db
    /\ db[calls[c].uploadId].user_id # calls[c].user
    /\ db[calls[c].uploadId].status = "processed"
    /\ calls[c].res[1].status = 404

\* the step applies the forced reset of some call to row id
ForcedResetOf(id) ==
  \E c \in Calls :
    /\ calls[c].pc = "reset"
    /\ calls'[c].pc # "reset"
    /\ calls[c].force
    /\ calls[c].uploadId = id

\* C3: every change of the status of a row is uploaded -> processed,
\* uploaded -> error, or processed/error -> uploaded by the reset of a call
\* with force=true.
StatusChangesAreLegal ==
  [][\A id \in DOMAIN db :
       db'[id].status # db[id].status
       => \/ /\ db[id].status = "uploaded"
             /\ db'[id].status \in { "processed", "error" }
          \/ /\ db[id].status \in { "processed", "error" }
             /\ db'[id].status = "uploaded"
             /\ ForcedResetOf(id)]_vars

\* the failures that come from the datastore, not from the upload
DatastoreFailures == { "fetch failed", "reset failed", "update failed" }

\* C4: a call with force=true on a processed row resets it to uploaded and
\* can reach processed again: when the datastore does not fail, the forced
\* reprocess of a processed row answers with the success response.
ForcedReprocessSucceeds ==
  \A c \in Calls :
    (/\ calls[c].pc = "done"
     /\ calls[c].force
     /\ calls[c].rows # Null
     /\ calls[c].rows[1].status = "processed"
     /\ (calls[c].err = Null \/ calls[c].err[1] \notin DatastoreFailures))
    => calls[c].res[1].status = 200

\* what the code does instead: no call that fetched a processed row ever
\* gets to read the file
ProcessedNeverReprocessed ==
  \A c \in Calls :
    (calls[c].rows # Null /\ calls[c].rows[1].status = "processed")
    => /\ calls[c].pc \notin { "extract", "update" }
       /\ calls[c].buf = Null
       /\ calls[c].pc = "done" => calls[c].res[1].status # 200

\* C5: extracted_text and prompts are non-null only if status = processed.
TextOnlyWhenProcessed ==
  \A id \in DOMAIN db :
    (db[id].extracted_text # Null \/ db[id].prompts # Null)
    => db[id].status = "processed"

\* C6: error_msg is non-null only if status = error.
ErrorMsgOnlyWhenError ==
  \A id \in DOMAIN db :
    db[id].error_msg # Null => db[id].status = "error"

\* C7: a row with status = processed has a non-empty extracted_text and a
\* non-null prompts; the markdown a call is about to write, made from a raw
\* text that is not blank, is not empty.
ProcessedHasText ==
  /\ \A id \in DOMAIN db :
       db[id].status = "processed"
       => /\ db[id].extracted_text # Null
          /\ Len(db[id].extracted_text[1]) > 0
          /\ db[id].prompts # Null
  /\ \A c \in Calls :
       calls[c].out # Null
       => /\ ~NoContent(pdf2md(calls[c].buf[1]).text)
          /\ Len(calls[c].out[1].enhancedMarkdown) > 0

\* a row is processed, written by a call that extracted a text
ProcessedHasTextWitness ==
  \E c \in Calls :
    /\ calls[c].pc = "done"
    /\ calls[c].res[1].status = 200
    /\ db[calls[c].uploadId].status = "processed"
    /\ db[calls[c].uploadId].extracted_text
         = Some(calls[c].res[1].body[1].markdownContent)

\* C8: in every state in which the status of a row is processed or error,
\* the file at stored_path does not exist.
FileGoneOutsideUploaded ==
  \A id \in DOMAIN db :
    db[id].status \in { "processed", "error" }
    => db[id].stored_path \notin DOMAIN files

\* C8, amended: the file is deleted on the way to processed only; in every
\* state in which the status of a row is processed its file does not exist.
FileGoneWhenProcessed ==
  \A id \in DOMAIN db :
    db[id].status = "processed" => db[id].stored_path \notin DOMAIN files

\* a row went from uploaded to processed and its file is gone
FileGoneWitness ==
  \E c \in Calls :
    /\ calls[c].pc = "done"
    /\ calls[c].res[1].status = 200
    /\ calls[c].rows[1].status = "uploaded"
    /\ db[calls[c].uploadId].status = "processed"
    /\ db[calls[c].uploadId].stored_path \notin DOMAIN files

\* the failures of steps 3-8: file missing, extraction, file deletion, the
\* final status write
ProcessingFailures ==
  { "File not found", "pdf2md failed",
    "No content could be extracted from the PDF", "ENOENT", "update failed" }

UploadStep == lastUpload' # lastUpload

\* the request carries a valid token and a file of type application/pdf
ValidUpload(r) ==
  r.user # NoUser /\ r.hasFile /\ r.mimetype = "application/pdf"

\* the step inserts a row in state uploaded that the caller owns
RowCreated ==
  /\ Len(db') = Len(db) + 1
  /\ db'[Len(db')].status = "uploaded"
  /\ db'[Len(db')].user_id = lastUpload'.user

\* C10: uploadCv creates a row, in state uploaded and owned by the caller,
\* exactly when the request is authenticated and carries a file of type
\* application/pdf; a request rejected for a missing credential, a missing
\* file or a wrong type creates no row and leaves no file.
UploadCreatesExactlyWhenValid ==
  [][UploadStep
     => /\ RowCreated <=> ValidUpload(lastUpload')
        /\ ~RowCreated => db' = db
        /\ ~ValidUpload(lastUpload') => db' = db /\ files' = files]_vars

\* C10, amended: uploadCv creates a row, in state uploaded and owned by the
\* caller, only when the request is authenticated and carries a file of type
\* application/pdf, and always when moreover the file is within the size
\* limit and the insert succeeds; a request rejected for a missing
\* credential, a missing file or a wrong type creates no row and leaves no
\* file.
UploadCreatesWhenValid ==
  [][UploadStep
     => /\ RowCreated => ValidUpload(lastUpload')
        /\ (/\ ValidUpload(lastUpload')
            /\ ~lastUpload'.tooLarge
            /\ ~lastUpload'.insertError) => RowCreated
        /\ ~RowCreated => db' = db
        /\ ~ValidUpload(lastUpload') => db' = db /\ files' = files]_vars

\* an upload created a row in state uploaded for its caller and left the
\* file in place
UploadWitness ==
  /\ lastUpload.status = 201
  /\ db[lastUpload.uploadId].status = "uploaded"
  /\ db[lastUpload.uploadId].user_id = lastUpload.user
  /\ lastUpload.path \in DOMAIN files

\* C11: nothing serializes two calls on one uploaded row.  A call of the
\* owner whose fetch returns the row as uploaded passes the status check
\* whatever the other calls are doing (it goes on to read the file, or fails
\* on a file that is gone); a call that has extracted writes processed and
\* its markdown whatever the row holds by then, and a call in its catch
\* block writes error whatever the row holds by then: the later write
\* overwrites the earlier one.
RaceNotSerialized ==
  [][\A c \in Calls :
       LET id == calls[c].uploadId
       IN  /\ (/\ FetchAnswered(c)
               /\ ByOwner(c)
               /\ db[id].status = "uploaded")
              => /\ calls'[c].pc \in { "extract", "catch" }
                 /\ calls'[c].pc = "extract" => calls'[c].buf = Some(files[db[id].stored_path])
                 /\ calls'[c].pc = "catch"
                      => /\ calls'[c].err = Some("File not found")
                         /\ db[id].stored_path \notin DOMAIN files
           /\ (calls[c].pc = "update" /\ calls'[c].pc = "done")
              => /\ db'[id].status = "processed"
                 /\ db'[id].extracted_text
                      = Some(calls[c].out[1].enhancedMarkdown)
           /\ (calls[c].pc = "catch" /\ calls'[c].pc = "done"
                 /\ id \in DOMAIN db)
              => /\ db'[id].status = "error"
                 /\ db'[id].error_msg = calls[c].err]_vars

\* two calls fetched the same row as uploaded, both read the file and ran
\* the extraction, one wrote error and the other, later, wrote processed
\* over it
RaceWitness ==
  \E c, d \in Calls :
    /\ c # d
    /\ calls[c].uploadId = calls[d].uploadId
    /\ calls[c].pc = "done" /\ calls[d].pc = "done"
    /\ calls[c].rows # Null /\ calls[c].rows[1].status = "uploaded"
    /\ calls[d].rows # Null /\ calls[d].rows[1].status = "uploaded"
    /\ calls[c].buf # Null /\ calls[d].buf # Null
    /\ calls[c].res[1].status = 200
    /\ calls[d].err = Some("ENOENT")
    /\ db[calls[c].uploadId].status = "processed"
    /\ db[calls[c].uploadId].error_msg = Some("ENOENT")

\* the step completes the reset of call c, and the datastore applied it
ResetAnswered(c) ==
  /\ calls[c].pc = "reset"
  /\ calls'[c].pc # "reset"
  /\ calls'[c].err # Some("reset failed")

\* C18: a forced reprocess of a row that is not uploaded and whose file is
\* gone is not rejected up front: the fetch step goes on to the reset and
\* changes nothing; the reset sets status to uploaded and clears error_msg
\* and processed_at without looking at the file; the call then fails with
\* 'File not found', and its catch block leaves status = error.
ForcedResetIgnoresFile ==
  [][\A c \in Calls :
       LET id == calls[c].uploadId
       IN  /\ (/\ FetchAnswered(c)
               /\ ByOwner(c)
               /\ calls[c].force
               /\ db[id].status # "uploaded"
               /\ db[id].stored_path \notin DOMAIN files)
              => calls'[c].pc = "reset" /\ db' = db
           /\ (/\ ResetAnswered(c)
               /\ calls[c].rows[1].stored_path \notin DOMAIN files)
              => /\ db'[id].status = "uploaded"
                 /\ db'[id].error_msg = Null
                 /\ db'[id].processed_at = Null
                 /\ calls'[c].pc = "catch"
                 /\ calls'[c].err = Some("File not found")
           /\ (/\ calls[c].pc = "catch"
               /\ calls'[c].pc # "catch"
               /\ calls[c].err = Some("File not found"))
              => /\ db'[id].status = "error"
                 /\ db'[id].error_msg = Some("File not found")]_vars

\* a forced reprocess of a processed row, whose file was gone, went through
\* the reset and ended with status = error
ForcedResetWitness ==
  \E c \in Calls :
    /\ calls[c].pc = "done"
    /\ calls[c].force
    /\ calls[c].rows # Null
    /\ calls[c].rows[1].status = "processed"
    /\ calls[c].buf = Null
    /\ calls[c].err = Some("File not found")
    /\ db[calls[c].uploadId].status = "error"

\* C19: every write to a row is made by a call of its owner: a step of a
\* call changes only rows whose user_id is the user of the call.
WritesScopedToOwner ==
  [][\A c \in Calls : \A id \in DOMAIN db :
       (calls'[c] # calls[c] /\ db'[id] # db[id])
       => db[id].user_id = calls[c].user]_vars

\* C20: processed_at is set exactly when status is processed or error.
ProcessedAtTracksStatus ==
  \A id \in DOMAIN db :
    db[id].processed_at # Null <=> db[id].status \in { "processed", "error" }

\* a processed row went through the forced reset: it is uploaded again,
\* still holds its text, and its processed_at is cleared
ProcessedAtWitness ==
  \E id \in DOMAIN db :
    /\ db[id].status = "uploaded"
    /\ db[id].extracted_text # Null
    /\ db[id].processed_at = Null

(***************************************************************************)
(* Properties of the text functions.                                       *)
(***************************************************************************)
\* the name of the function applied last, or "none"
LastOp == IF work.ops = << >> THEN "none" ELSE work.ops[Len(work.ops)]

\* some line of the text is the line given
HasLine(text, line) ==
  LET lines == split(text) IN \E i \in DOMAIN lines : lines[i] = line

\* C12: repair and then enhanceMarkdown of the resume whose name is spaced
\* out, followed by the lines EXPERIENCE, Senior Engineer 2019 - 2023, Acme
\* Inc, a bullet, EDUCATION and BS Computer Science, give markdown with the
\* header lines ## EXPERIENCE and ## EDUCATION, and the prompts generated from
\* it include the summary, the work experience and the educational background
\* prompts.
EndToEndExample ==
  work.input = ResumeExample =>
    /\ work.ops = << "repair", "enhanceMarkdown" >> =>
         /\ HasLine(work.out, MarkdownLines[1])
         /\ HasLine(work.out, MarkdownLines[3])
    /\ work.ops = << "repair", "enhanceMarkdown",
                     "generateIntelligentPrompts" >> =>
         { "Summarize my CV in 3-4 sentences",
           "What is my work experience?",
           "What is my educational background?" } \subseteq Range(work.out)

\* every prompt that a rule of generateIntelligentPrompts can add, in the
\* order of the rules
RuleOrder ==
  << "Summarize my CV in 3-4 sentences",
     "What are my contact details?",
     "What is my work experience?",
     "What are my most recent job responsibilities?",
     "What companies have I worked for?",
     "What leadership experience do I have?",
     "What remote work experience do I have?",
     "What are my technical skills?",
     "What JavaScript and web development skills do I have?",
     "What programming and data analysis skills do I have?",
     "What design skills do I have?",
     "What is my educational background?",
     "What is my technical education?",
     "What additional training and certifications do I have?",
     "What projects have I worked on?",
     "Can you describe my key projects in detail?",
     "What full-stack development projects have I completed?",
     "What full-stack JavaScript experience do I have?",
     "What database experience do I have?",
     "What teamwork and collaboration skills do I have?",
     "What languages do I speak?",
     "What is my location and work availability?" >>

\* the place of a prompt in the order of the rules, 0 if no rule adds it
RulePlace(prompt) ==
  IF prompt \in Range(RuleOrder)
    THEN CHOOSE i \in DOMAIN RuleOrder : RuleOrder[i] = prompt
  ELSE 0

\* the prompts are added by rules, each after the ones before it
InRuleOrder(prompts) ==
  /\ \A i \in DOMAIN prompts : RulePlace(prompts[i]) # 0
  /\ \A i, j \in DOMAIN prompts :
       i < j => RulePlace(prompts[i]) < RulePlace(prompts[j])

\* C13: generateIntelligentPrompts returns at most 15 prompts, none of them
\* twice, in the order of the rules; they are the first 15 of the prompts of
\* all the rules that fire; and applying it again to the same markdown
\* returns the same list.
PromptsCappedAndOrdered ==
  /\ [](LastOp = "generateIntelligentPrompts" =>
          /\ Len(work.out) <= 15
          /\ InRuleOrder(work.out)
          /\ Cardinality(Range(work.out)) = Len(work.out)
          /\ LET fired == allPrompts(work.arg)
             IN  /\ InRuleOrder(fired)
                 /\ \A i \in DOMAIN fired :
                      i <= 15 => i \in DOMAIN work.out
                                   /\ work.out[i] = fired[i])
  /\ [][(LastOp = "generateIntelligentPrompts"
           /\ work'.ops = Append(work.ops, "generateIntelligentPrompts"))
          => work'.out = work.out]_vars

\* more than 15 prompts fire, the list is cut to 15 and comes out again
PromptsCappedWitness ==
  /\ Len(work.ops) >= 2
  /\ work.ops[Len(work.ops) - 1] = "generateIntelligentPrompts"
  /\ LastOp = "generateIntelligentPrompts"
  /\ Len(allPrompts(work.arg)) > 15
  /\ Len(work.out) = 15

\* the lines of a text that start with #
HeaderLines(text) ==
  LET lines == split(text)
  IN  { lines[i] : i \in { j \in DOMAIN lines : startsWith(lines[j], << "#" >>) } }

\* C14: the prompts always begin with the summary prompt and the contact
\* details prompt; when the only header line of the markdown is ## SKILLS,
\* they include the technical skills prompt and none of the prompts of the
\* education and projects rules.
BasePromptsAndSkillsOnly ==
  LastOp = "generateIntelligentPrompts" =>
    /\ Len(work.out) >= 2
    /\ work.out[1] = "Summarize my CV in 3-4 sentences"
    /\ work.out[2] = "What are my contact details?"
    /\ HeaderLines(work.arg) = { HeaderSkills } =>
         /\ "What are my technical skills?" \in Range(work.out)
         /\ \A i \in 12..17 : RuleOrder[i] \notin Range(work.out)

\* markdown with the header ## SKILLS alone, whose body speaks of education
\* and of projects
SkillsOnlyWitness ==
  /\ LastOp = "generateIntelligentPrompts"
  /\ HeaderLines(work.arg) = { HeaderSkills }
  /\ HasLine(work.arg, MarkdownLines[6])
  /\ HasLine(work.arg, MarkdownLines[7])
  /\ "What are my technical skills?" \in Range(work.out)

\* C15: repair applied to a text that repair returned returns that text.
RepairIdempotent ==
  [][(LastOp = "repair" /\ work'.ops = Append(work.ops, "repair"))
       => work'.out = work.out]_vars

\* repair changed the text, and repair of the result changed nothing
RepairTwiceWitness ==
  /\ work.ops = << "repair", "repair" >>
  /\ work.input = SpacedLetters
  /\ work.arg # work.input
  /\ work.out = work.arg

\* C16: repair keeps the spaces between the words of the prose
\* "Hello world, friend." and changes nothing else than the space before a
\* punctuation mark: both that prose and "Hello world , friend ." come out as
\* "Hello world, friend.".
ProseWordsIntact ==
  (work.ops = << "repair" >> /\ work.input \in { PlainProse, SpacedProse })
    => work.out = PlainProse

\* C17: the line EXPERIENCE is a section header; the line "Software
\* Engineer, 2020 - Present" is not a section header and is a job title,
\* having a role word and a date pattern.
ExampleLinesClassified ==
  work.ops = << "classify" >> =>
    /\ work.input = LineExperience => work.out.header
    /\ work.input = LineSoftwareEngineer =>
         /\ ~work.out.header
         /\ work.out.jobTitle
         /\ MatchesWord(work.out.line, jobTitleWords)
         /\ work.out.date

\* the job title line has been classified
JobTitleWitness ==
  /\ work.ops = << "classify" >>
  /\ work.input = LineSoftwareEngineer
  /\ work.out.line = LineSoftwareEngineer
  /\ work.out.jobTitle

\* white space runs in the text strictly between two letters or digits
HasLetterGap(text) ==
  \E i, j \in DOMAIN text :
    /\ i + 1 < j
    /\ IsAlnum(text[i])
    /\ IsAlnum(text[j])
    /\ \A k \in (i + 1)..(j - 1) : IsSpace(text[k])

\* white space in the text comes right before a punctuation mark
HasSpaceBeforePunct(text) ==
  \E i \in DOMAIN text :
    i + 1 \in DOMAIN text /\ IsSpace(text[i]) /\ IsPunct(text[i + 1])

\* the text "Helloworld"
Helloworld == << "H", "e", "l", "l", "o", "w", "o", "r", "l", "d" >>

\* C21: collapseLetterGaps ends on every text, each pass that changes the
\* text making it shorter, and its result has no white space strictly between
\* two letters or digits, which one pass does not achieve on "a b c"; the
\* result of repair has no white space right before , . ; : ! ? either; and
\* repair of "H e l l o   w o r l d" is "Helloworld".
GapsCollapsed ==
  LastOp = "repair" =>
    /\ LET pass == GapPass(work.arg, 1)
       IN  pass # work.arg => Len(pass) < Len(work.arg)
    /\ ~HasLetterGap(collapseLetterGaps(work.arg))
    /\ ~HasLetterGap(work.out)
    /\ ~HasSpaceBeforePunct(work.out)
    /\ work.arg = SpacedABC => HasLetterGap(GapPass(work.arg, 1))
    /\ work.arg = SpacedLetters => work.out = Helloworld

\* repair has been applied to the spaced-out letters and to "a b c"
GapsCollapsedWitness ==
  /\ work.ops = << "repair" >>
  /\ work.input \in { SpacedLetters, SpacedABC }
  /\ HasLetterGap(work.input)
  /\ work.out \in { Helloworld, << "a", "b", "c" >> }

\* C22: repair keeps every line break: the lines of the repaired text are the
\* lines of the raw text, each of them repaired.
LineBreaksKept ==
  LastOp = "repair" =>
    LET lines == split(work.arg)
    IN  split(work.out) = [i \in DOMAIN lines |-> repair(lines[i])]

\* the prompts that count as the prompts of a flag: those of the rule that
\* the flag guards; for a flag that guards no rule, those of the rules that
\* look at the words of the text alone
FlagPrompts(flag) ==
  LET places == CASE flag = "experience" -> 3..7
                  [] flag = "skills"     -> 8..11
                  [] flag = "education"  -> 12..14
                  [] flag = "projects"   -> 15..17
                  [] OTHER               -> 18..22
  IN  { RuleOrder[i] : i \in places }

\* C23: for each of the seven flags that extractSections sets, the prompts
\* before the cut to 15 contain a prompt of that flag.
EachFlagHasPrompt ==
  LastOp = "generateIntelligentPrompts" =>
    \A flag \in extractSections(work.arg) :
      Range(allPrompts(work.arg)) \cap FlagPrompts(flag) # {}

\* the flags in the order of the branches, and the words of each
FlagOrder ==
  << "experience", "skills", "education", "certifications", "projects",
     "achievements", "languages" >>

FlagWords(flag) ==
  CASE flag = "experience"     -> experienceHeaderWords
    [] flag = "skills"         -> skillsHeaderWords
    [] flag = "education"      -> educationHeaderWords
    [] flag = "certifications" -> certificationsHeaderWords
    [] flag = "projects"       -> projectsHeaderWords
    [] flag = "achievements"   -> achievementsHeaderWords
    [] flag = "languages"      -> languagesHeaderWords

\* the places in FlagOrder of the flags whose words the line has
FlagsOfLine(line) ==
  { k \in DOMAIN FlagOrder :
      includesAny(toLowerCase(line), FlagWords(FlagOrder[k])) }

\* the indices of the lines that begin with "# " or "## "
HeaderIndices(lines) ==
  { i \in DOMAIN lines :
      startsWith(lines[i], << "#", " " >>)
        \/ startsWith(lines[i], << "#", "#", " " >>) }

\* C24: extractSections reads the lines that begin with "# " or "## " and no
\* other line; each of them sets the first flag, in the order experience,
\* skills, education, certifications, projects, achievements, languages,
\* whose words it has, or none; the result is the set of the flags so set.
SectionsFromHeaders ==
  LastOp = "extractSections" =>
    LET lines == split(work.arg)
    IN  work.out =
          { FlagOrder[SetMin(FlagsOfLine(lines[i]))] :
              i \in { h \in HeaderIndices(lines) :
                        FlagsOfLine(lines[h]) # {} } }

\* of six lines that name five sections, one is a header of a section, and
\* it has the words of two
SectionsWitness ==
  /\ work.ops = << "extractSections" >>
  /\ work.arg = SectionsExample
  /\ Cardinality(FlagsOfLine(split(work.arg)[2])) = 2
  /\ work.out = { "education" }

\* the lines that the loop of enhanceMarkdown goes through for a text
LoopLines(text) == split(cleanMarkdown(text))

\* C25: in enhanceMarkdown a line that does not start with # and is a
\* section header is emitted as "## " and the line in upper case, also when
\* it is a job title or a company name; a line that does not start with #,
\* is a job title and is no section header is emitted as "### " and the line,
\* also when it is a company name.
HeaderBeforeTitleBeforeCompany ==
  LastOp = "enhanceMarkdown" =>
    LET lines == LoopLines(work.arg)
    IN  /\ \A i \in DOMAIN lines :
             LET line == LineAt(lines, i)
                 next == LineAt(lines, i + 1)
             IN  (line # << >> /\ ~startsWith(line, << "#" >>)) =>
                   /\ isSectionHeader(line) =>
                        HasLine(work.out,
                                << "#", "#", " " >> \o toUpperCase(line))
                   /\ (isJobTitle(line, next) /\ ~isSectionHeader(line)) =>
                        HasLine(work.out, << "#", "#", "#", " " >> \o line)
        /\ work.arg = LineHeaderTitleCompany =>
             /\ isJobTitle(lines[1], << >>)
             /\ isCompanyName(lines[1], << >>)
             /\ work.out = << "#", "#", " " >> \o toUpperCase(lines[1])
        /\ work.arg = LineTitleCompany =>
             /\ isCompanyName(lines[1], << >>)
             /\ work.out = << "#", "#", "#", " " >> \o lines[1]

\* a line that is a section header, a job title and a company name at once
\* has been structured
HeaderFirstWitness ==
  /\ work.ops = << "enhanceMarkdown" >>
  /\ work.input = LineHeaderTitleCompany
  /\ LET line == LoopLines(work.arg)[1]
     IN  /\ isSectionHeader(line)
         /\ isJobTitle(line, << >>)
         /\ isCompanyName(line, << >>)
         /\ startsWith(work.out, << "#", "#", " ", "E", "X", "P" >>)

\* the flags that guard a rule of generateIntelligentPrompts
GuardingFlags == { "experience", "skills", "education", "projects" }

\* the function applied before the last one, or "none"
OpBeforeLast ==
  IF Len(work.ops) < 2 THEN "none" ELSE work.ops[Len(work.ops) - 1]

\* C29: the markdown that enhanceMarkdown returns has no line break, so
\* extractSections sets at most one flag on it, and the prompts generated from
\* it have the prompts of at most one of the rules of experience, skills,
\* education and projects.
StructuredIsOneLine ==
  /\ LastOp = "enhanceMarkdown" =>
       /\ "\n" \notin Range(work.out)
       /\ Len(split(work.out)) = 1
       /\ Cardinality(extractSections(work.out)) <= 1
  /\ (OpBeforeLast = "enhanceMarkdown" /\ LastOp = "extractSections") =>
       Cardinality(work.out) <= 1
  /\ (OpBeforeLast = "enhanceMarkdown"
        /\ LastOp = "generateIntelligentPrompts") =>
       Cardinality({ flag \in GuardingFlags :
                       Range(work.out) \cap FlagPrompts(flag) # {} }) <= 1

\* markdown with the headers of four sections went through repair and
\* enhanceMarkdown, and its prompts know of the first section only
OneLineWitness ==
  /\ work.ops = << "repair", "enhanceMarkdown",
                   "generateIntelligentPrompts" >>
  /\ \A i \in 1..4 : HasLine(work.input, MarkdownLines[i])
  /\ "\n" \notin Range(work.arg)
  /\ "What is my work experience?" \in Range(work.out)
  /\ "What are my technical skills?" \notin Range(work.out)

(***************************************************************************)
(* Further properties of generatePrompts and uploadCv.                     *)
(***************************************************************************)
\* call c has answered with the success response
Succeeded(c) ==
  /\ calls[c].pc = "done"
  /\ calls[c].res[1].status = 200

\* C26: a call deletes the file of the row in a step of its own, before the
\* step that writes the status processed; in every state, whatever the
\* interleaving of the calls, a row whose status is processed has no file.
DeletedBeforeProcessed ==
  /\ [](\A id \in DOMAIN db :
          db[id].status = "processed"
            => db[id].stored_path \notin DOMAIN files)
  /\ [][\A c \in Calls :
          (calls[c].pc = "extract" /\ calls'[c].pc = "update") =>
            /\ calls[c].rows[1].stored_path \in DOMAIN files
            /\ calls[c].rows[1].stored_path \notin DOMAIN files'
            /\ db' = db]_vars
  /\ [][\A id \in DOMAIN db :
          (db[id].status # "processed" /\ db'[id].status = "processed") =>
            \E c \in Calls :
              /\ calls[c].pc = "update"
              /\ calls[c].uploadId = id
              /\ Succeeded(c)'
              /\ db[id].stored_path \notin DOMAIN files
              /\ files' = files]_vars

\* between the two steps: the file is gone and the status is still uploaded
DeletedNotYetProcessedWitness ==
  \E c \in Calls :
    /\ calls[c].pc = "update"
    /\ db[calls[c].uploadId].status = "uploaded"
    /\ db[calls[c].uploadId].stored_path \notin DOMAIN files

\* C27: of all the calls ever made for a row, with or without force and
\* however interleaved, at most one answers with the success response, and
\* extracted_text is written at most once, by that call.
AtMostOneSuccess ==
  /\ [](\A id \in UploadIds :
          Cardinality({ c \in Calls :
                          Succeeded(c) /\ calls[c].uploadId = id }) <= 1)
  /\ [][\A c \in Calls :
          (calls[c].pc = "update" /\ Succeeded(c)') =>
            /\ db[calls[c].uploadId].extracted_text = Null
            /\ db'[calls[c].uploadId].extracted_text # Null]_vars
  /\ [][\A id \in DOMAIN db :
          db'[id].extracted_text # db[id].extracted_text =>
            db[id].extracted_text = Null]_vars

\* one call succeeded, and a later call with force on the same row failed
\* for want of the file
OneSuccessWitness ==
  \E c, d \in Calls :
    /\ c # d
    /\ calls[c].uploadId = calls[d].uploadId
    /\ Succeeded(c)
    /\ calls[d].force
    /\ calls[d].pc = "done"
    /\ calls[d].err = Some("File not found")

\* C28: once a call has answered with the success response the status of the
\* row is processed, and it stays processed as long as no call with force
\* has been made for the row, whatever calls without force were in flight.
StaysProcessedAfterSuccess ==
  \A c \in Calls :
    (/\ Succeeded(c)
     /\ \A d \in Calls :
          (calls[d].pc # "idle" /\ calls[d].uploadId = calls[c].uploadId)
            => ~calls[d].force)
    => db[calls[c].uploadId].status = "processed"

\* C30: a request to POST /cv/upload that creates no row leaves no file
\* behind, also when the insert fails: every file in the uploads directory is
\* at the stored_path of some row.
EveryFileHasRecord ==
  /\ \A path \in DOMAIN files :
       \E id \in DOMAIN db : db[id].stored_path = path
  /\ lastUpload.uploadId = 0 => lastUpload.path \notin DOMAIN files

====
